---- MODULE Spec2Model ----
(***************************************************************************)
(* Model of the python-vnc service: the supervisor (PythonVNCRunner) with  *)
(* its start/poll/heartbeat tasks, the tunnelled RFB session (handshake    *)
(* and demultiplex loop), the RFB codec, the input handler, the gateway    *)
(* client with its request signing, and the screen capturer's dirty-region *)
(* detection.                                                              *)
(*                                                                         *)
(* Bytes are naturals 0..255, byte strings are sequences of bytes.         *)
(* Python's None is modelled by 0 for ws_connection and command ids.       *)
(***************************************************************************)
EXTENDS Integers, Sequences, FiniteSets, TLC

VARIABLES
    \* PythonVNCRunner fields
    is_running, streaming, ws_connection, shutdown_event,
    \* task positions: start(), _command_poll_loop(), _heartbeat_loop()
    mainPc, pollPc, hbPc,
    \* the exception start() is leaving with ("none": no exception) and the
    \* exit code of the process (Running until it has ended)
    mainExc, exit_code,
    \* task.cancel() requested for the poll / heartbeat task
    pollCancel, hbCancel,
    \* locals of the poll task's call stack
    commands, cmd, attempt, retry_delay, exc, ackKind, ackTry,
    \* the status of the latest poll response (0: none) and the seconds the
    \* poll loop has slept since then
    pollStatus, waited,
    \* the tunnel: connections that are open, number of connections opened
    openConns, nextConn,
    \* the gateway: next command id to issue, ack requests received;
    \* GatewayClient.sequence
    nextId, acks, sequence,
    \* the sequence numbers of the events the gateway accepted, in the order
    \* they were accepted, and the send_event calls in progress, in the order
    \* the calls were made
    events, inflight,
    \* the session on the current connection: the handshake and update
    \* messages exchanged (in order), the _message_loop buffer, the bytes the
    \* viewer sends and how many of them were delivered, what the
    \* demultiplexer consumed, the transport reads made
    wire, buffer, stream, pos, demuxLog, reads,
    \* VNCServer / InputHandler (inputCalls: the events handed to the
    \* InputHandler during the current session)
    frame_counter, last_frame, pressed_keys, inputCalls,
    \* per key code, the keyboard.press / keyboard.release calls the
    \* InputHandler issued for it, in order
    keyboard,
    \* a component called on its own: the operation applied ("none" before
    \* the call), its input and its result
    op, arg, res,
    \* ScreenCapturerDelta.last_frame of a capturer called on its own
    capturer_last_frame,
    \* the client's answer to the server's version string on the current
    \* connection (Unread before it is read)
    client_version,
    \* history: commands in hand while a session was active, commands that
    \* opened a connection, release_all executed since the session began
    \* and the commands with an id and a name that polls returned
    held, opened, sessReleased, polled

vars == << is_running, streaming, ws_connection, shutdown_event,
           mainPc, pollPc, hbPc, mainExc, exit_code, pollCancel, hbCancel,
           commands, cmd, attempt, retry_delay, exc, ackKind, ackTry,
           pollStatus, waited,
           openConns, nextConn, nextId, acks, sequence, events, inflight,
           wire, buffer, stream, pos, demuxLog, reads,
           frame_counter, last_frame, pressed_keys, inputCalls, keyboard,
           client_version, op, arg, res, capturer_last_frame,
           held, opened, sessReleased, polled >>

flagVars == << is_running, shutdown_event >>
taskVars == << mainPc, hbPc, pollCancel, hbCancel >>
exitVars == << mainExc, exit_code >>
stackVars == << commands, cmd, attempt, retry_delay, exc, ackKind, ackTry,
               pollStatus, waited >>
connVars == << openConns, nextConn >>
gwVars == << nextId, acks, sequence, events, inflight >>
sessVars == << wire, buffer, stream, pos, demuxLog, reads, client_version >>
frameVars == << frame_counter, last_frame >>
inVars == << frameVars, pressed_keys, inputCalls, keyboard >>
unitVars == << op, arg, res, capturer_last_frame >>
histVars == << held, opened, sessReleased, polled >>
\* what belongs to the supervisor, its tasks and the session
runnerVars == << flagVars, streaming, ws_connection, taskVars, exitVars, pollPc,
                stackVars, connVars, sessVars, histVars >>

(***************************************************************************)
(* Bounds of the model (not program constants).                            *)
(***************************************************************************)
\* commands the gateway issues in one run (in batches of any size)
MaxCommands == 2
\* tunnel connections the gateway accepts in one run
MaxConns == 2
\* transport frames the viewer sends in one run of the supervisor model
MaxReads == 1
\* client messages in one byte stream of the demultiplexer model
MaxMsgs == 2
\* send_event calls made on one client
MaxCalls == 3
\* key events handed to one InputHandler
MaxKeyEvents == 3
\* the monitor's width and height in pixels
ScreenWidth == 9
ScreenHeight == 4
\* dirty blocks in a list handed to _merge_regions
MaxDirty == 3

(***************************************************************************)
(* Program constants.                                                      *)
(***************************************************************************)
max_retries == 5
InitialRetryDelay == 2
MaxRetryDelay == 30
\* seconds: the sleep after a rate-limited call, VNC_COMMAND_POLL_INTERVAL
RateLimitBackoff == 10
PollInterval == 5

(***************************************************************************)
(* Byte helpers (struct.unpack '>H', '>I').                                *)
(***************************************************************************)
U16(b, i) == b[i] * 256 + b[i + 1]

U32(b, i) == ((b[i] * 256 + b[i + 1]) * 256 + b[i + 2]) * 256 + b[i + 3]

\* Python slice data[from:] on a 1-indexed sequence: drop the first n bytes
Drop(b, n) == IF n >= Len(b) THEN << >> ELSE SubSeq(b, n + 1, Len(b))

Take(b, n) == IF n >= Len(b) THEN b ELSE SubSeq(b, 1, n)

Min(a, b) == IF a < b THEN a ELSE b

None == [ok |-> FALSE]

(***************************************************************************)
(* RFBEncoder: the server's handshake messages (by name; their bytes are   *)
(* fixed) and the client-message parsers.                                  *)
(***************************************************************************)
\* b'RFB' = 82 70 66
RFBMagic == << 82, 70, 66 >>

\* a prefix test that accepts every non-empty answer
StartsWithAnything(v) == Len(v) >= 1

\* client_version.startswith(b'RFB')
StartsWithRFB(v) == Len(v) >= 3 /\ SubSeq(v, 1, 3) = RFBMagic

\* parse_key_event(data): None below 8 bytes, else down = data[0], key = data[4:8]
parse_key_event(data) ==
    IF Len(data) < 8 THEN None
    ELSE [ok |-> TRUE, type |-> "key", down |-> (data[1] # 0), key |-> U32(data, 5)]

\* parse_pointer_event(data): None below 6 bytes, else mask = data[0], x, y = data[1:5]
parse_pointer_event(data) ==
    IF Len(data) < 6 THEN None
    ELSE [ok |-> TRUE, type |-> "pointer", mask |-> data[1],
          x |-> U16(data, 2), y |-> U16(data, 4)]

\* the buttons dict of parse_pointer_event: bool(button_mask & 1), & 2, & 4,
\* & 8, & 16
buttons(button_mask) ==
    [left |-> button_mask % 2 = 1,
     middle |-> (button_mask \div 2) % 2 = 1,
     right |-> (button_mask \div 4) % 2 = 1,
     scroll_up |-> (button_mask \div 8) % 2 = 1,
     scroll_down |-> (button_mask \div 16) % 2 = 1]

\* parse_set_pixel_format(data): None below 20 bytes, else the four flags from
\* data[:4], the maxima from data[4:10] and the shifts from data[10:13]
parse_set_pixel_format(data) ==
    IF Len(data) < 20 THEN None
    ELSE [ok |-> TRUE,
          bpp |-> data[1], color_depth |-> data[2],
          big_endian |-> (data[3] # 0), true_color |-> (data[4] # 0),
          red_max |-> U16(data, 5), green_max |-> U16(data, 7),
          blue_max |-> U16(data, 9),
          red_shift |-> data[11], green_shift |-> data[12],
          blue_shift |-> data[13]]

\* parse_client_cut_text(data): None below 8 bytes or below 8 + length
parse_client_cut_text(data) ==
    IF Len(data) < 8 THEN None
    ELSE IF Len(data) < 8 + U32(data, 5) THEN None
    ELSE [ok |-> TRUE, type |-> "cut_text", text |-> SubSeq(data, 9, 8 + U32(data, 5))]

\* struct.pack(fmt, *args) raises struct.error unless it gets one argument per
\* format code; nFmt is the number of codes in the format string.
StructPackOk(nFmt, args) == Len(args) = nFmt

\* encode_frame_update: header, then struct.pack('>HHHHH', x, y, width, height)
\* (five codes, four arguments), the encoding and the pixel data.
encode_frame_update(frame_data, x, y, width, height) ==
    IF StructPackOk(5, << x, y, width, height >>)
    THEN [ok |-> TRUE, msg |-> "FramebufferUpdate"]
    ELSE [ok |-> FALSE, msg |-> "struct.error"]

\* encode_multiple_rectangles: the same struct.pack call once per rectangle
encode_multiple_rectangles(rectangles) ==
    IF \A i \in 1 .. Len(rectangles) :
           StructPackOk(5, << rectangles[i].x, rectangles[i].y,
                              rectangles[i].width, rectangles[i].height >>)
    THEN [ok |-> TRUE, msg |-> "FramebufferUpdate"]
    ELSE [ok |-> FALSE, msg |-> "struct.error"]

(***************************************************************************)
(* InputHandler.                                                           *)
(***************************************************************************)
\* keys of InputHandler.KEY_MAP
KEY_MAP == { 65307, 65289, 65299, 65300, 65301, 65535, 65288, 65293,
             65361, 65362, 65363, 65364, 65365, 65366, 65367, 65368 }
           \cup (65470 .. 65481) \cup (65505 .. 65508) \cup (65511 .. 65514)

\* the largest argument chr() accepts (sys.maxunicode); above it chr raises
\* ValueError, which both callers of _vnckey_to_pynput catch and log
MaxCodePoint == 1114111

\* _vnckey_to_pynput(vnc_key) returns a key
KeyMapped(vnc_key) ==
    \/ vnc_key \in KEY_MAP
    \/ (32 <= vnc_key /\ vnc_key <= 126)
    \/ (vnc_key > 255 /\ vnc_key <= MaxCodePoint)

\* the platform key _vnckey_to_pynput returns for a mapped vnc_key, given by
\* the set of key codes that yield it: KEY_MAP has Key.shift, Key.ctrl,
\* Key.alt and Key.cmd under two key codes each, every other key code has a
\* key (or character) of its own
_vnckey_to_pynput(vnc_key) ==
    IF vnc_key \in {65505, 65506} THEN {65505, 65506}
    ELSE IF vnc_key \in {65507, 65508} THEN {65507, 65508}
    ELSE IF vnc_key \in {65513, 65514} THEN {65513, 65514}
    ELSE IF vnc_key \in {65511, 65512} THEN {65511, 65512}
    ELSE {vnc_key}

\* the keyboard calls issued so far for key_code
Issued(kb, key_code) == IF key_code \in DOMAIN kb THEN kb[key_code] ELSE << >>

\* kb after the call `call` ("press" or "release") for each key code in keys
Issue(kb, keys, call) ==
    [k \in DOMAIN kb \cup keys |->
        IF k \in keys THEN Append(Issued(kb, k), call) ELSE kb[k]]

\* a handler that presses on every down-event
handle_key_event_unguarded(event, pressed, kb) ==
    IF ~KeyMapped(event.key) THEN [pressed |-> pressed, keyboard |-> kb]
    ELSE IF event.down
    THEN [pressed |-> pressed \cup {event.key},
          keyboard |-> Issue(kb, {event.key}, "press")]
    ELSE IF event.key \in pressed
    THEN [pressed |-> pressed \ {event.key},
          keyboard |-> Issue(kb, {event.key}, "release")]
    ELSE [pressed |-> pressed, keyboard |-> kb]

\* handle_key_event: the pressed set and the issued calls after the event
handle_key_event(event, pressed, kb) ==
    IF ~KeyMapped(event.key) THEN [pressed |-> pressed, keyboard |-> kb]
    ELSE IF event.down
    THEN IF event.key \notin pressed
         THEN [pressed |-> pressed \cup {event.key},
               keyboard |-> Issue(kb, {event.key}, "press")]
         ELSE [pressed |-> pressed, keyboard |-> kb]
    ELSE IF event.key \in pressed
    THEN [pressed |-> pressed \ {event.key},
          keyboard |-> Issue(kb, {event.key}, "release")]
    ELSE [pressed |-> pressed, keyboard |-> kb]

\* a release_all that only clears the set
release_all_silent(pressed, kb) == [pressed |-> {}, keyboard |-> kb]

\* release_all: keyboard.release for every member of the pressed set that
\* maps to a key, then pressed_keys.clear()
release_all(pressed, kb) ==
    [pressed |-> {},
     keyboard |-> Issue(kb, { k \in pressed : KeyMapped(k) }, "release")]

(***************************************************************************)
(* VNCServer.                                                              *)
(***************************************************************************)
\* a captured frame, by the set of its pixels that are not background, and
\* the None of a last_frame attribute before the first capture
Frame(lit) == [captured |-> TRUE, lit |-> lit]
NoFrame == [captured |-> FALSE, lit |-> {}]
\* the screen as the runner's session captures it
Screen == Frame({})

\* --width / --height defaults
WIDTH == 1920
HEIGHT == 1080

\* capture_frame: capture_rgb() may raise; the frame is then encoded; any
\* exception is logged and re-raised.
capture_frame(captureOk) ==
    IF ~captureOk THEN [ok |-> FALSE, msg |-> "CaptureError"]
    ELSE encode_frame_update("rgb_bytes", 0, 0, WIDTH, HEIGHT)

\* handle_framebuffer_update_request ignores its arguments
handle_framebuffer_update_request(incremental, x, y, w, h, captureOk) ==
    capture_frame(captureOk)

\* handle_input_event(rfb_event): the parsers get rfb_event[1:]; a parsed key or
\* pointer event goes to the InputHandler, clipboard text is only logged,
\* exceptions are swallowed.  Returns the new pressed set and call log.
handle_input_event(rfb_event, pressed, calls, kb) ==
    IF Len(rfb_event) < 1
    THEN [pressed |-> pressed, calls |-> calls, keyboard |-> kb]
    ELSE LET event_type == rfb_event[1]
             data == Drop(rfb_event, 1)
         IN  IF event_type = 4
             THEN LET event == parse_key_event(data)
                  IN  IF event.ok
                      THEN [pressed |-> handle_key_event(event, pressed, kb).pressed,
                            calls |-> Append(calls, event),
                            keyboard |-> handle_key_event(event, pressed, kb).keyboard]
                      ELSE [pressed |-> pressed, calls |-> calls, keyboard |-> kb]
             ELSE IF event_type = 5
             THEN LET event == parse_pointer_event(data)
                  IN  IF event.ok
                      THEN [pressed |-> pressed, calls |-> Append(calls, event),
                            keyboard |-> kb]
                      ELSE [pressed |-> pressed, calls |-> calls, keyboard |-> kb]
             ELSE [pressed |-> pressed, calls |-> calls, keyboard |-> kb]

\* a buffer that keeps only the latest transport frame
ExtendReplaces(buf, data) == data

\* buffer.extend(data)
Extend(buf, data) == buf \o data

\* a SetEncodings length that counts one byte per encoding
SetEncodingsTotalUnscaled(buf) == 4 + U16(buf, 3)

\* enc_count = struct.unpack('>H', buffer[2:4])[0]; total = 4 + enc_count * 4
SetEncodingsTotal(buf) == 4 + U16(buf, 3) * 4

(***************************************************************************)
(* _message_loop: one iteration of the inner `while True` loop on the      *)
(* buffer: break (wait for the next read), consume a message of `total`    *)
(* bytes, or drop one byte of an unknown type.                             *)
(***************************************************************************)
\* a pop that empties the buffer
pop_everything(buf) == << >>

\* buffer.pop(0): the buffer without its first byte
pop(buf) == Tail(buf)

DemuxStep(buf) ==
    IF Len(buf) < 1 THEN [act |-> "break", total |-> 0]
    ELSE LET msg_type == buf[1] IN
        IF msg_type = 0
        THEN IF Len(buf) < 20 THEN [act |-> "break", total |-> 0]
             ELSE [act |-> "msg", total |-> 20]
        ELSE IF msg_type = 2
        THEN IF Len(buf) < 4 THEN [act |-> "break", total |-> 0]
             ELSE LET total == SetEncodingsTotal(buf)
                  IN  IF Len(buf) < total THEN [act |-> "break", total |-> 0]
                      ELSE [act |-> "msg", total |-> total]
        ELSE IF msg_type = 3
        THEN IF Len(buf) < 10 THEN [act |-> "break", total |-> 0]
             ELSE [act |-> "msg", total |-> 10]
        ELSE IF msg_type = 4
        THEN IF Len(buf) < 8 THEN [act |-> "break", total |-> 0]
             ELSE [act |-> "msg", total |-> 8]
        ELSE IF msg_type = 5
        THEN IF Len(buf) < 6 THEN [act |-> "break", total |-> 0]
             ELSE [act |-> "msg", total |-> 6]
        ELSE IF msg_type = 6
        THEN IF Len(buf) < 8 THEN [act |-> "break", total |-> 0]
             ELSE LET total == 8 + U32(buf, 5)
                  IN  IF Len(buf) < total THEN [act |-> "break", total |-> 0]
                      ELSE [act |-> "msg", total |-> total]
        ELSE [act |-> "skip", total |-> 1]

(***************************************************************************)
(* RunAuth.create_signature.  Strings are sequences of character codes.    *)
(* SHA-256 and HMAC-SHA256 are taken as injective: the hex digest of a     *)
(* string is modelled by its hex encoding (injective, and like a digest    *)
(* made of hex digits only), the HMAC by the pair of key and message.      *)
(***************************************************************************)
\* '\n'
Newline == 10

\* str(n) for a non-negative int
RECURSIVE Str(_)
Str(n) == IF n < 10 THEN << 48 + n >> ELSE Str(n \div 10) \o << 48 + (n % 10) >>

\* one hex digit as a character code
HexDigit(n) == IF n < 10 THEN 48 + n ELSE 87 + n

\* hashlib.sha256(body.encode()).hexdigest()
RECURSIVE sha256_hexdigest(_)
sha256_hexdigest(b) ==
    IF b = << >> THEN << >>
    ELSE << HexDigit(Head(b) \div 16), HexDigit(Head(b) % 16) >>
         \o sha256_hexdigest(Tail(b))

\* '\n'.join(parts)
RECURSIVE Join(_)
Join(parts) ==
    IF parts = << >> THEN << >>
    ELSE IF Len(parts) = 1 THEN Head(parts)
    ELSE Head(parts) \o << Newline >> \o Join(Tail(parts))

\* a message that leaves out the capability token
message_without_token(c) ==
    Join(<< c.method, c.path, sha256_hexdigest(c.body), Str(c.timestamp),
            c.nonce, c.run_id >>)

\* message = '\n'.join([method, path, body_hash, str(timestamp), nonce,
\*                      self.run_id, self.capability_token])
message(c) ==
    Join(<< c.method, c.path, sha256_hexdigest(c.body), Str(c.timestamp),
            c.nonce, c.run_id, c.capability_token >>)

\* os.getenv('HMAC_SECRET', ...), read once in RunAuth.__init__
hmac_secret == "HMAC_SECRET"

\* hmac.new(self.hmac_secret.encode(), message.encode(), sha256).hexdigest()
create_signature(c) == [key |-> hmac_secret, message |-> message(c)]

(***************************************************************************)
(* ScreenCapturerDelta.  A pair of captures of the same size is given by   *)
(* the set of byte offsets at which their tobytes() differ; regions are    *)
(* tuples (x, y, width, height).                                           *)
(***************************************************************************)
\* ScreenCapturerDelta(block_size=...), 16 by default; 2 on the small screen
block_size == 2

\* bytes per pixel of the image capture_pil returns: Image.frombytes('RGB', ...)
RGB == 3

\* bytes_per_pixel in _find_dirty_blocks: the object has no attribute 'vnc'
bytes_per_pixel == 4

Max(a, b) == IF a > b THEN a ELSE b

\* the offsets in tobytes() of the pixel at (x, y)
PixelBytes(x, y) ==
    { (y * ScreenWidth + x) * RGB + c : c \in 0 .. RGB - 1 }

\* _block_changed: some row slice current[row_start:row_end] differs
_block_changed(diff, x, y, w, h, bpp) ==
    LET stride == ScreenWidth * bpp
    IN  \E row \in 0 .. h - 1 :
          LET row_start == (y + row) * stride + x * bpp
              row_end == row_start + w * bpp
          IN  \E o \in diff : row_start <= o /\ o < row_end

\* the block grid without the min() that clips the last column and row
BlockGridUnclipped ==
    [i \in 1 .. ((ScreenHeight + block_size - 1) \div block_size)
                   * ((ScreenWidth + block_size - 1) \div block_size) |->
        << ((i - 1) % ((ScreenWidth + block_size - 1) \div block_size)) * block_size,
           ((i - 1) \div ((ScreenWidth + block_size - 1) \div block_size)) * block_size,
           block_size, block_size >>]

\* the blocks the two range() loops visit, in their order
BlockColumns == (ScreenWidth + block_size - 1) \div block_size
BlockRows == (ScreenHeight + block_size - 1) \div block_size
BlockGrid ==
    [i \in 1 .. BlockRows * BlockColumns |->
        LET block_x == ((i - 1) % BlockColumns) * block_size
            block_y == ((i - 1) \div BlockColumns) * block_size
        IN  << block_x, block_y,
               Min(block_size, ScreenWidth - block_x),
               Min(block_size, ScreenHeight - block_y) >>]

\* _find_dirty_blocks
_find_dirty_blocks(diff) ==
    SelectSeq(BlockGrid,
              LAMBDA b : _block_changed(diff, b[1], b[2], b[3], b[4], bytes_per_pixel))

\* _can_merge, margin = self.block_size
_can_merge(r1, r2) ==
    ~ \/ r1[1] + r1[3] + block_size < r2[1]
      \/ r2[1] + r2[3] + block_size < r1[1]
      \/ r1[2] + r1[4] + block_size < r2[2]
      \/ r2[2] + r2[4] + block_size < r1[2]

\* key=lambda r: (r[1], r[0]), compared as tuples
KeyLE(a, b) == a[2] < b[2] \/ (a[2] = b[2] /\ a[1] <= b[1])

\* sorted(regions, key=...): a stable sort
RECURSIVE Sorted(_)
Sorted(regions) ==
    IF regions = << >> THEN << >>
    ELSE LET n == Len(regions)
             front == Sorted(SubSeq(regions, 1, n - 1))
             k == Cardinality({ i \in 1 .. n - 1 : KeyLE(front[i], regions[n]) })
         IN  SubSeq(front, 1, k) \o << regions[n] >> \o SubSeq(front, k + 1, n - 1)

\* the bounding box of last and current
Bounding(r1, r2) ==
    LET new_x == Min(r1[1], r2[1])
        new_y == Min(r1[2], r2[2])
    IN  << new_x, new_y,
           Max(r1[1] + r1[3], r2[1] + r2[3]) - new_x,
           Max(r1[2] + r1[4], r2[2] + r2[4]) - new_y >>

\* the loop of _merge_regions over sorted_regions[1:]
RECURSIVE MergeLoop(_, _)
MergeLoop(merged, rest) ==
    IF rest = << >> THEN merged
    ELSE LET last == merged[Len(merged)]
             current == Head(rest)
         IN  IF _can_merge(last, current)
             THEN MergeLoop([merged EXCEPT ![Len(merged)] = Bounding(last, current)],
                            Tail(rest))
             ELSE MergeLoop(Append(merged, current), Tail(rest))

\* _merge_regions
_merge_regions(regions) ==
    IF regions = << >> THEN << >>
    ELSE MergeLoop(<< Head(Sorted(regions)) >>, Tail(Sorted(regions)))

\* detect_dirty_regions with captures of equal size: the whole screen on the
\* first call, nothing for identical captures, else the merged dirty blocks
detect_dirty_regions(retained, diff) ==
    IF ~retained THEN << << 0, 0, ScreenWidth, ScreenHeight >> >>
    ELSE IF diff = {} THEN << >>
    ELSE _merge_regions(_find_dirty_blocks(diff))

\* the byte offsets at which tobytes() of two captures differ
Diff(f, g) ==
    UNION { PixelBytes(p[1], p[2]) : p \in (f.lit \ g.lit) \cup (g.lit \ f.lit) }

\* a call that drops the retained frame when the capture fails
detect_dirty_regions_forgetting(last, captureOk, current) ==
    IF ~captureOk
    THEN [ok |-> FALSE, msg |-> "CaptureError", regions |-> << >>,
          last_frame |-> NoFrame]
    ELSE [ok |-> TRUE, msg |-> "",
          regions |-> detect_dirty_regions(last.captured, Diff(last, current)),
          last_frame |-> current]

\* one call of detect_dirty_regions on a capturer whose last_frame is `last`:
\* capture_pil() comes first and re-raises what the grab raised; otherwise
\* the regions are computed against `last` and the capture is retained (for
\* identical content the old image is kept, which has the same content)
detect_dirty_regions_call(last, captureOk, current) ==
    IF ~captureOk
    THEN [ok |-> FALSE, msg |-> "CaptureError", regions |-> << >>,
          last_frame |-> last]
    ELSE [ok |-> TRUE, msg |-> "",
          regions |-> detect_dirty_regions(last.captured, Diff(last, current)),
          last_frame |-> current]

(***************************************************************************)
(* The process: run() and __main__.                                        *)
(***************************************************************************)
\* the process has not ended
Running == -1

\* run() lets every exception but KeyboardInterrupt pass; __main__ exits
\* with 0 on KeyboardInterrupt and with 1 on any other exception, and ends
\* normally otherwise
ExitCodeZero(e) == 0

ExitCode(e) == IF e \in {"none", "KeyboardInterrupt"} THEN 0 ELSE 1

(***************************************************************************)
(* GatewayClient.                                                          *)
(***************************************************************************)
\* a record of the response that has no 'id' key / no 'command' key
Absent == -1
AbsentName == "<absent>"

\* response.raise_for_status() does not raise
IsSuccess(status) == 200 <= status /\ status <= 299

\* str(e) of the httpx.HTTPError of a failed exchange
HttpError(status) ==
    IF status = 0 THEN "ConnectError"
    ELSE IF status = 429 THEN "HTTPStatusError 429"
    ELSE "HTTPStatusError 500"

\* a send_event that counts every call
send_event_counting_calls(seq, status) ==
    [raised |-> ~IsSuccess(status), sequence |-> seq + 1]

\* send_event: self.sequence += 1 after raise_for_status(); an HTTPError is
\* logged and re-raised
send_event(seq, status) ==
    IF IsSuccess(status) THEN [raised |-> FALSE, sequence |-> seq + 1]
    ELSE [raised |-> TRUE, sequence |-> seq]

\* poll_commands: httpx.HTTPError is caught and [] returned; response.json(),
\* data.get and cmd['id'] / cmd['command'] raise other exceptions
poll_commands(resp) ==
    IF ~IsSuccess(resp.status) THEN [raised |-> "none", commands |-> << >>]
    ELSE IF resp.form = "not_json"
    THEN [raised |-> "JSONDecodeError", commands |-> << >>]
    ELSE IF resp.form = "scalar"
    THEN [raised |-> "AttributeError", commands |-> << >>]
    ELSE IF \E i \in 1 .. Len(resp.records) :
               resp.records[i].id = Absent \/ resp.records[i].command = AbsentName
    THEN [raised |-> "KeyError", commands |-> << >>]
    ELSE [raised |-> "none", commands |-> resp.records]

(***************************************************************************)
(* Inputs of the model.                                                    *)
(***************************************************************************)
START == "__START_VNC_STREAM__"
STOP == "__STOP__"

\* command records the gateway returns: with an id (replaced by a fresh id),
\* with a null or empty id (0) or without the key, with a command name, an
\* empty one or without the key
CommandKinds ==
    { [id |-> 1, command |-> START], [id |-> 1, command |-> STOP],
      [id |-> 1, command |-> "ls"], [id |-> 0, command |-> STOP],
      [id |-> 1, command |-> ""],
      [id |-> Absent, command |-> START], [id |-> 1, command |-> AbsentName] }

RECURSIVE SeqsUpTo(_, _)
SeqsUpTo(S, n) ==
    IF n = 0 THEN { << >> }
    ELSE LET shorter == SeqsUpTo(S, n - 1)
         IN  shorter \cup { Append(q, x) : q \in shorter, x \in S }

\* the batch as returned: the records with an id get the ids first, first + 1, ...
\* (a record without an id uses up a number too)
WithIds(batch, first) ==
    [i \in 1 .. Len(batch) |->
        IF batch[i].id <= 0 THEN batch[i]
        ELSE [id |-> first + i - 1, command |-> batch[i].command]]

\* client messages, as the viewer sends them
SetPixelFormatMsg ==
    << 0, 0, 0, 0, 32, 24, 0, 1, 0, 255, 0, 255, 0, 255, 16, 8, 0, 0, 0, 0 >>
SetEncodingsMsg == << 2, 0, 0, 1, 0, 0, 0, 5 >>
UpdateRequestMsg == << 3, 1, 0, 0, 0, 0, 0, 4, 0, 3 >>
KeyDownMsg == << 4, 1, 0, 0, 0, 0, 0, 65 >>
KeyUpMsg == << 4, 0, 0, 0, 0, 0, 0, 65 >>
PointerMsg == << 5, 1, 3, 192, 2, 88 >>
CutTextMsg == << 6, 0, 0, 0, 0, 0, 0, 2, 104, 105 >>
UnknownByte == << 9 >>

\* transport frames of the supervisor model
RunnerFrames == { KeyDownMsg, UpdateRequestMsg }

\* the pieces byte streams of the demultiplexer model are made of
Catalog ==
    { SetPixelFormatMsg, SetEncodingsMsg, UpdateRequestMsg, KeyDownMsg, KeyUpMsg,
      PointerMsg, CutTextMsg, UnknownByte }

RECURSIVE Flatten(_)
Flatten(ss) == IF ss = << >> THEN << >> ELSE Head(ss) \o Flatten(Tail(ss))

DemuxStreams == { Flatten(q) : q \in SeqsUpTo(Catalog, MaxMsgs) }

\* what the viewer answers to the server's version string
ValidVersion == << 82, 70, 66, 32, 48, 48, 51, 46, 48, 48, 56, 10 >>

ClientVersions == { ValidVersion, << >>, << 72, 84, 84, 80 >> }

NoCommand == [id |-> 0, command |-> ""]

\* HTTP exchanges: no response at all (connect failure, timeout: status 0) or
\* a response with a status code
Statuses == { 0, 200, 429, 500 }

\* a poll response: its status and, for 200, its body: not JSON, a JSON value
\* that is neither a list nor an object, a list of records, or an object
\* with the records under 'commands'
PollResponses(first) ==
    { [status |-> st, form |-> "none", records |-> << >>] : st \in Statuses \ {200} }
    \cup { [status |-> 200, form |-> f, records |-> << >>] : f \in {"not_json", "scalar"} }
    \cup { [status |-> 200, form |-> f, records |-> WithIds(batch, first)] :
             f \in {"list", "dict"},
             batch \in SeqsUpTo(CommandKinds, MaxCommands + 1 - first) }

\* client_version before recv() has returned it (256 is not a byte)
Unread == << 256 >>

\* key codes of the events: 'A', left and right shift (both Key.shift), and
\* 200, which _vnckey_to_pynput maps to nothing
KeyCodes == { 65, 65505, 65506, 200 }

\* the event dicts parse_key_event builds for them
KeyEvents == [ok : {TRUE}, type : {"key"}, down : BOOLEAN, key : KeyCodes]

\* keysyms as four bytes: 0x41, 0xffe1 (65505), 0x7fffffff
KeysymBytes == { << 0, 0, 0, 65 >>, << 0, 0, 255, 225 >>, << 127, 255, 255, 255 >> }

\* 8-byte KeyEvent messages: type byte (4, or 0 as in test_key_event_parsing),
\* down-flag, two padding bytes, keysym
KeyEventMsgs ==
    { << t, d, 0, 0 >> \o k : t \in {0, 4}, d \in {0, 1, 2}, k \in KeysymBytes }

\* PointerEvent data as test_pointer_event_parsing gives it: button mask, x, y
PointerData ==
    { << m >> \o xy : m \in {0, 1, 2, 4, 8, 16, 31, 255},
                      xy \in { << 3, 192, 2, 88 >>, << 0, 0, 0, 0 >>,
                               << 255, 255, 255, 255 >> } }

\* 16-byte pixel-format blocks: the server's own format, and an 8-bit
\* big-endian colour-mapped one
PixelFormats ==
    { << 32, 24, 0, 1, 0, 255, 0, 255, 0, 255, 16, 8, 0, 0, 0, 0 >>,
      << 8, 6, 1, 0, 0, 7, 0, 7, 0, 3, 5, 2, 1, 0, 0, 0 >> }

\* the byte strings handed to the parsers: whole messages, messages without
\* their type byte (as handle_input_event passes them), pointer data with
\* and without a type byte in front, truncated messages
CodecBytes ==
    KeyEventMsgs \cup { Drop(m, 1) : m \in KeyEventMsgs }
    \cup PointerData \cup { << 5 >> \o d : d \in PointerData }
    \cup { << 0, 0, 0, 0 >> \o f : f \in PixelFormats }
    \cup { Take(<< 0, 0, 0, 0 >> \o f, 19) : f \in PixelFormats }

\* rectangles with 16-bit fields
Rects == [x : {0, 65535}, y : {0, 1}, width : {1, 65535}, height : {1, 65535}]

\* the inputs of the codec
CodecInputs ==
    { [kind |-> "bytes", data |-> b] : b \in CodecBytes }
    \cup { [kind |-> "rects", data |-> q] : q \in SeqsUpTo(Rects, 1) }

\* the pixels of a block
BlockPixels(b) ==
    { << x, y >> : x \in b[1] .. b[1] + b[3] - 1, y \in b[2] .. b[2] + b[4] - 1 }

\* pairs of captures that are identical or differ only inside one block:
\* the block and the pixels of it that changed; retained tells whether a
\* frame of an earlier call is kept
FramePairs ==
    UNION { { [kind |-> "frames", retained |-> r, block |-> BlockGrid[i],
               changed |-> c] :
              c \in SUBSET BlockPixels(BlockGrid[i]), r \in BOOLEAN } :
            i \in DOMAIN BlockGrid }

\* the pixels in which the captures of a sequence of calls may differ from
\* the background, and the captures
ProbePixels == { << 0, 1 >>, << 8, 0 >>, << 4, 2 >>, << 3, 3 >> }
Frames == { Frame(lit) : lit \in SUBSET ProbePixels }

\* the members of a set of grid positions in increasing order
RECURSIVE InOrder(_)
InOrder(S) ==
    IF S = {} THEN << >>
    ELSE LET m == CHOOSE x \in S : \A y \in S : x <= y
         IN  << BlockGrid[m] >> \o InOrder(S \ {m})

\* lists of dirty blocks as _find_dirty_blocks returns them
DirtyLists ==
    { [kind |-> "blocks", data |-> InOrder(S)] :
        S \in { T \in SUBSET DOMAIN BlockGrid : Cardinality(T) <= MaxDirty } }

\* values of a string argument of create_signature: '' and 'a\na'
StrVals == { << >>, << 97, Newline, 97 >> }

\* values of int(time.time())
Timestamps == { 0, 7, 10 }

\* the arguments of one create_signature call, with the RunAuth fields
SignCalls ==
    [method : StrVals, path : StrVals, body : StrVals, timestamp : Timestamps,
     nonce : StrVals, run_id : StrVals, capability_token : StrVals]

SignFields ==
    { "method", "path", "body", "timestamp", "nonce", "run_id", "capability_token" }

\* the values a field of a call can take
FieldVals(f) == IF f = "timestamp" THEN Timestamps ELSE StrVals

\* the call a and the calls that differ from it in exactly one field
Variants(a) == UNION { { [a EXCEPT ![f] = v] : v \in FieldVals(f) } : f \in SignFields }

\* two calls that are identical or differ in exactly one field
SignPairs == UNION { { << a, b >> : b \in Variants(a) } : a \in SignCalls }

(***************************************************************************)
(* Initial state: PythonVNCRunner.__init__, before start().                *)
(***************************************************************************)
Constructed ==
    /\ is_running = FALSE /\ streaming = FALSE
    /\ ws_connection = 0 /\ shutdown_event = FALSE
    /\ mainPc = "start" /\ pollPc = "none" /\ hbPc = "none"
    /\ mainExc = "none" /\ exit_code = Running
    /\ pollCancel = FALSE /\ hbCancel = FALSE
    /\ commands = << >> /\ cmd = NoCommand
    /\ attempt = 0 /\ retry_delay = InitialRetryDelay
    /\ exc = "none" /\ ackKind = "result" /\ ackTry = 1
    /\ pollStatus = 0 /\ waited = 0
    /\ openConns = {} /\ nextConn = 0
    /\ nextId = 1 /\ acks = {} /\ sequence = 0
    /\ events = << >> /\ inflight = << >>
    /\ wire = << >> /\ buffer = << >> /\ stream = << >> /\ pos = 0
    /\ demuxLog = << >> /\ reads = 0
    /\ frame_counter = 0 /\ last_frame = NoFrame
    /\ pressed_keys = {} /\ inputCalls = << >>
    /\ keyboard = << >>
    /\ client_version = Unread
    /\ capturer_last_frame = NoFrame
    /\ held = {} /\ opened = {} /\ sessReleased = TRUE /\ polled = {}

\* no component has been called on its own
NoCall == op = "none" /\ arg = << >> /\ res = << >>

Init == Constructed /\ NoCall

(***************************************************************************)
(* start(): register, send the marker, create the tasks, wait for the      *)
(* shutdown event, cancel and join the tasks, stop().                      *)
(***************************************************************************)
\* _stop_vnc_streaming and the rest of stop(): closes the connection the
\* runner still refers to, then VNCServer.cleanup() releases all keys
Stop ==
    /\ is_running' = FALSE
    /\ streaming' = FALSE
    /\ openConns' = openConns \ {ws_connection}
    /\ ws_connection' = IF streaming THEN 0 ELSE ws_connection
    /\ pressed_keys' = release_all(pressed_keys, keyboard).pressed
    /\ keyboard' = release_all(pressed_keys, keyboard).keyboard
    /\ sessReleased' = TRUE

MainStart ==
    /\ mainPc = "start"
    /\ is_running' = TRUE
    /\ \E regStatus \in Statuses, evStatus \in Statuses :
         IF ~IsSuccess(regStatus)
         THEN \* _register_client raises: logged, re-raised, finally stop()
              /\ mainPc' = "stop" /\ mainExc' = HttpError(regStatus)
              /\ UNCHANGED << pollPc, hbPc, sequence, events >>
         ELSE LET r == send_event(sequence, evStatus) IN
              /\ sequence' = r.sequence
              /\ events' = IF r.raised THEN events ELSE Append(events, sequence)
              /\ IF r.raised
                 THEN \* _send_started_marker raises
                      /\ mainPc' = "stop" /\ mainExc' = HttpError(evStatus)
                      /\ UNCHANGED << pollPc, hbPc >>
                 ELSE \* the tasks are created
                      /\ mainPc' = "wait" /\ pollPc' = "poll" /\ hbPc' = "beat"
                      /\ UNCHANGED mainExc
    /\ UNCHANGED << unitVars, exit_code >>
    /\ UNCHANGED << streaming, ws_connection, shutdown_event, pollCancel, hbCancel,
                    stackVars, connVars, nextId, acks, inflight, sessVars, inVars,
                    histVars >>

\* the shutdown event is set: the poll task is cancelled and awaited
MainCancelPoll ==
    /\ mainPc = "wait" /\ shutdown_event
    /\ mainPc' = "join_poll" /\ pollCancel' = TRUE
    /\ UNCHANGED << unitVars, exitVars >>
    /\ UNCHANGED << is_running, streaming, ws_connection, shutdown_event, pollPc,
                    hbPc, hbCancel, stackVars, connVars, gwVars, sessVars, inVars,
                    histVars >>

\* the poll task has ended: the heartbeat task is cancelled and awaited
MainCancelHeartbeat ==
    /\ mainPc = "join_poll" /\ pollPc = "done"
    /\ mainPc' = "join_hb" /\ hbCancel' = TRUE
    /\ UNCHANGED << unitVars, exitVars >>
    /\ UNCHANGED << is_running, streaming, ws_connection, shutdown_event, pollPc,
                    hbPc, pollCancel, stackVars, connVars, gwVars, sessVars, inVars,
                    histVars >>

MainJoined ==
    /\ mainPc = "join_hb" /\ hbPc = "done"
    /\ mainPc' = "stop"
    /\ UNCHANGED << unitVars, exitVars >>
    /\ UNCHANGED << is_running, streaming, ws_connection, shutdown_event, pollPc,
                    hbPc, pollCancel, hbCancel, stackVars, connVars, gwVars,
                    sessVars, inVars, histVars >>

\* stop() in start()'s finally, and again in run()'s finally; then the
\* process ends
MainStop ==
    /\ mainPc \in {"stop", "stop_again"}
    /\ Stop
    /\ mainPc' = IF mainPc = "stop" THEN "stop_again" ELSE "exited"
    /\ wire' = << >> /\ stream' = << >> /\ pos' = 0 /\ demuxLog' = << >>
    /\ inputCalls' = << >> /\ client_version' = Unread
    /\ exit_code' = IF mainPc = "stop" THEN exit_code ELSE ExitCode(mainExc)
    /\ UNCHANGED << unitVars, mainExc >>
    /\ UNCHANGED << shutdown_event, pollPc, hbPc, pollCancel, hbCancel, stackVars,
                    nextConn, gwVars, buffer, reads, frameVars, held, opened,
                    polled >>

\* SIGINT / SIGTERM: _signal_handler sets the shutdown event
Signal ==
    /\ mainPc # "exited" /\ ~shutdown_event
    /\ shutdown_event' = TRUE
    /\ UNCHANGED << unitVars, exitVars >>
    /\ UNCHANGED << is_running, streaming, ws_connection, mainPc, pollPc, hbPc,
                    pollCancel, hbCancel, stackVars, connVars, gwVars, sessVars,
                    inVars, histVars >>

(***************************************************************************)
(* _heartbeat_loop.                                                        *)
(***************************************************************************)
\* one iteration: send_heartbeat (errors are logged), sleep, loop condition
Heartbeat ==
    /\ hbPc = "beat" /\ ~hbCancel
    /\ hbPc' = IF is_running THEN "beat" ELSE "done"
    /\ UNCHANGED << unitVars, exitVars >>
    /\ UNCHANGED << flagVars, streaming, ws_connection, mainPc, pollPc, pollCancel,
                    hbCancel, stackVars, connVars, gwVars, sessVars, inVars,
                    histVars >>

HeartbeatCancelled ==
    /\ hbPc = "beat" /\ hbCancel
    /\ hbPc' = "done"
    /\ UNCHANGED << unitVars, exitVars >>
    /\ UNCHANGED << flagVars, streaming, ws_connection, mainPc, pollPc, pollCancel,
                    hbCancel, stackVars, connVars, gwVars, sessVars, inVars,
                    histVars >>

(***************************************************************************)
(* _command_poll_loop and what it awaits: _handle_command,                 *)
(* _start_vnc_streaming, _perform_rfb_handshake, _message_loop.            *)
(***************************************************************************)
\* the poll task ends: its coroutine frames and their locals are gone
TaskEnds ==
    /\ pollPc' = "done"
    /\ commands' = << >> /\ cmd' = NoCommand
    /\ attempt' = 0 /\ retry_delay' = InitialRetryDelay
    /\ exc' = "none" /\ ackKind' = "result" /\ ackTry' = 1
    /\ pollStatus' = 0 /\ waited' = 0
    /\ buffer' = << >>

\* positions at which the poll task is suspended in an await
AwaitPcs == { "poll", "sleep", "rate_limited", "connect", "backoff", "hs_version", "hs_security",
              "hs_init", "loop_recv", "closing", "ack", "ack_wait" }

\* positions between a successful connect and the end of the session's teardown
SessionPcs == { "hs_version", "hs_security", "hs_init", "loop_recv", "loop_drain",
                "closing" }

\* commands = await self.gateway.poll_commands(): the returned list, or an
\* exception that goes to the loop's `except Exception`
PollCommands ==
    /\ pollPc = "poll" /\ ~pollCancel
    /\ \E resp \in PollResponses(nextId) :
         LET r == poll_commands(resp)
             named == { j \in 1 .. Len(r.commands) :
                          r.commands[j].id # 0 /\ r.commands[j].command # "" }
         IN  /\ pollStatus' = resp.status /\ waited' = 0
             /\ nextId' = nextId + Len(resp.records)
             /\ commands' = r.commands
             /\ polled' = polled \cup { r.commands[j].id : j \in named }
             /\ exc' = r.raised
             /\ pollPc' = IF r.raised = "none" THEN "next_cmd" ELSE "poll_failed"
    /\ UNCHANGED << unitVars, exitVars >>
    /\ UNCHANGED << flagVars, streaming, ws_connection, taskVars, cmd, attempt,
                    retry_delay, ackKind, ackTry, connVars, acks, sequence, events,
                    inflight, sessVars,
                    inVars, held, opened, sessReleased >>

\* a handler that lets the exception leave the loop: the task ends
PollLoopReraises(e) == "done"

\* where the loop's `except Exception` (lines 177-183) goes on: '429' in
\* str(e) leads to the rate-limit sleep, anything else is only logged
PollLoopExcept(e) == IF e = HttpError(429) THEN "rate_limited" ELSE "sleep"

\* the loop's `except Exception`; the batch is abandoned
PollFailed ==
    /\ pollPc = "poll_failed"
    /\ pollPc' = PollLoopExcept(exc)
    /\ exc' = "none" /\ commands' = << >>
    /\ UNCHANGED << unitVars, exitVars >>
    /\ UNCHANGED << flagVars, streaming, ws_connection, taskVars, cmd, attempt,
                    retry_delay, ackKind, ackTry, pollStatus, waited, connVars,
                    gwVars, sessVars, inVars, histVars >>

\* await asyncio.sleep(10)
RateLimitSleep ==
    /\ pollPc = "rate_limited" /\ ~pollCancel
    /\ waited' = waited + RateLimitBackoff
    /\ pollPc' = "sleep"
    /\ UNCHANGED << unitVars, exitVars >>
    /\ UNCHANGED << flagVars, streaming, ws_connection, taskVars, commands, cmd,
                    attempt, retry_delay, exc, ackKind, ackTry, pollStatus,
                    connVars, gwVars, sessVars, inVars, histVars >>

\* an _handle_command that takes every id for a usable one
NoIdNever(c) == FALSE

\* `if not command_id`: None and '' are falsy (both modelled by 0)
NoId(c) == c.id = 0

\* `for cmd in commands: await self._handle_command(cmd)` up to the first await
HandleCommand ==
    /\ pollPc = "next_cmd"
    /\ IF commands = << >>
       THEN /\ pollPc' = "sleep"
            /\ UNCHANGED << commands, cmd, attempt, retry_delay, ackKind, ackTry,
                            shutdown_event >>
       ELSE LET c == Head(commands) IN
            /\ commands' = Tail(commands)
            /\ IF NoId(c) \/ c.command = ""
               THEN \* logged and skipped, no ack: return
                    /\ pollPc' = "next_cmd" /\ cmd' = NoCommand
                    /\ UNCHANGED << attempt, retry_delay, ackKind, ackTry,
                                    shutdown_event >>
               ELSE IF c.command = START
               THEN /\ cmd' = c
                    /\ IF streaming
                       THEN \* 'VNC streaming already active': return, then ack
                            /\ pollPc' = "ack" /\ ackKind' = "result" /\ ackTry' = 1
                            /\ UNCHANGED << attempt, retry_delay, shutdown_event >>
                       ELSE /\ pollPc' = "connect"
                            /\ attempt' = 0 /\ retry_delay' = InitialRetryDelay
                            /\ UNCHANGED << ackKind, ackTry, shutdown_event >>
               ELSE IF c.command = STOP
               THEN /\ cmd' = c
                    /\ shutdown_event' = TRUE
                    /\ pollPc' = "ack" /\ ackKind' = "result" /\ ackTry' = 1
                    /\ UNCHANGED << attempt, retry_delay >>
               ELSE /\ cmd' = c
                    /\ pollPc' = "ack" /\ ackKind' = "not_executed" /\ ackTry' = 1
                    /\ UNCHANGED << attempt, retry_delay, shutdown_event >>
    /\ UNCHANGED << unitVars, exitVars >>
    /\ UNCHANGED << is_running, streaming, ws_connection, taskVars, exc,
                    pollStatus, waited, connVars, gwVars, sessVars, inVars,
                    histVars >>

\* `except Exception` of _start_vnc_streaming (lines 289-297): retry after a
\* backoff sleep, or re-raise to _handle_command, which acks the error
StartFailed ==
    /\ streaming' = FALSE
    /\ IF attempt < max_retries - 1
       THEN pollPc' = "backoff" /\ UNCHANGED << ackKind, ackTry >>
       ELSE pollPc' = "ack" /\ ackKind' = "start_failed" /\ ackTry' = 2

\* websockets.connect(): a new connection (and the server's version string is
\* sent on it), or an error
Connect ==
    /\ pollPc = "connect" /\ ~pollCancel
    /\ \/ /\ nextConn < MaxConns
          /\ nextConn' = nextConn + 1
          /\ ws_connection' = nextConn + 1
          /\ openConns' = openConns \cup {nextConn + 1}
          /\ streaming' = TRUE
          /\ pollPc' = "hs_version"
          /\ wire' = << "send_version" >>
          /\ stream' = << >> /\ pos' = 0 /\ demuxLog' = << >>
          /\ inputCalls' = << >> /\ client_version' = Unread
          /\ UNCHANGED reads
          /\ opened' = opened \cup {cmd.id}
          /\ held' = held \cup { commands[i].id : i \in 1 .. Len(commands) }
          /\ sessReleased' = FALSE
          /\ UNCHANGED << ackKind, ackTry, polled >>
       \/ /\ StartFailed
          /\ UNCHANGED << ws_connection, connVars, wire, client_version, stream, pos, demuxLog,
                          reads, inputCalls, histVars >>
    /\ UNCHANGED << unitVars, exitVars >>
    /\ UNCHANGED << flagVars, taskVars, commands, cmd, pollStatus, waited,
                    attempt, retry_delay, exc,
                    gwVars, buffer, frameVars, pressed_keys, keyboard >>

\* a backoff that grows by the initial delay
NextDelayLinear(d) == Min(d + InitialRetryDelay, MaxRetryDelay)

\* retry_delay = min(retry_delay * 2, 30)
NextDelay(d) == Min(d * 2, MaxRetryDelay)

\* asyncio.sleep(retry_delay), then the next attempt
Backoff ==
    /\ pollPc = "backoff" /\ ~pollCancel
    /\ retry_delay' = NextDelay(retry_delay)
    /\ attempt' = attempt + 1
    /\ pollPc' = "connect"
    /\ UNCHANGED << unitVars, exitVars >>
    /\ UNCHANGED << flagVars, streaming, ws_connection, taskVars, commands, cmd, pollStatus, waited,
                    exc, ackKind, ackTry, connVars, gwVars, sessVars, inVars,
                    histVars >>

\* the viewer or the network closes the session's connection
RemoteClose ==
    /\ ws_connection \in openConns /\ pollPc \in SessionPcs
    /\ openConns' = openConns \ {ws_connection}
    /\ UNCHANGED << unitVars, exitVars >>
    /\ UNCHANGED << flagVars, streaming, ws_connection, taskVars, pollPc,
                    stackVars, nextConn, gwVars, sessVars, inVars, histVars >>

\* _perform_rfb_handshake, the client version: read it, check the prefix,
\* send the security types
HsVersion ==
    /\ pollPc = "hs_version" /\ ~pollCancel
    /\ IF ws_connection \notin openConns
       THEN StartFailed /\ UNCHANGED << wire, client_version >>
       ELSE \E v \in ClientVersions :
              /\ client_version' = v
              /\ IF v = << >> \/ ~StartsWithRFB(v)
                 THEN \* raise RuntimeError('Invalid client handshake')
                      /\ StartFailed
                      /\ wire' = Append(wire, "recv_version")
                 ELSE /\ wire' = wire \o << "recv_version", "send_security_types" >>
                      /\ pollPc' = "hs_security"
                      /\ UNCHANGED << streaming, ackKind, ackTry >>
    /\ UNCHANGED << unitVars, exitVars >>
    /\ UNCHANGED << flagVars, ws_connection, taskVars, commands, cmd, pollStatus, waited, attempt,
                    retry_delay, exc, connVars, gwVars, buffer, stream, pos,
                    demuxLog, reads, inVars, histVars >>

\* a handshake step that sends ServerInit without waiting for ClientInit
HsSecurityEager ==
    /\ pollPc = "hs_security" /\ ~pollCancel
    /\ wire' = wire \o << "recv_security", "send_security_result",
                          "send_server_init" >>
    /\ pollPc' = "hs_init"
    /\ UNCHANGED << unitVars, exitVars >>
    /\ UNCHANGED << flagVars, streaming, ws_connection, taskVars, stackVars,
                    connVars, gwVars, buffer, stream, pos, demuxLog, reads, inVars,
                    histVars, client_version >>

\* the security choice: read it (not looked at), send the security result
HsSecurity ==
    /\ pollPc = "hs_security" /\ ~pollCancel
    /\ IF ws_connection \notin openConns
       THEN StartFailed /\ UNCHANGED << wire, client_version >>
       ELSE /\ wire' = wire \o << "recv_security", "send_security_result" >>
            /\ pollPc' = "hs_init"
            /\ UNCHANGED << streaming, ackKind, ackTry, client_version >>
    /\ UNCHANGED << unitVars, exitVars >>
    /\ UNCHANGED << flagVars, ws_connection, taskVars, commands, cmd, pollStatus, waited, attempt,
                    retry_delay, exc, connVars, gwVars, buffer, stream, pos,
                    demuxLog, reads, inVars, histVars >>

\* ClientInit: read it, send ServerInit, enter _message_loop with an empty buffer
HsInit ==
    /\ pollPc = "hs_init" /\ ~pollCancel
    /\ IF ws_connection \notin openConns
       THEN StartFailed /\ UNCHANGED << wire, client_version, buffer >>
       ELSE /\ wire' = wire \o << "recv_client_init", "send_server_init" >>
            /\ buffer' = << >>
            /\ pollPc' = "loop_recv"
            /\ UNCHANGED << streaming, ackKind, ackTry, client_version >>
    /\ UNCHANGED << unitVars, exitVars >>
    /\ UNCHANGED << flagVars, ws_connection, taskVars, commands, cmd, pollStatus, waited, attempt,
                    retry_delay, exc, connVars, gwVars, stream, pos, demuxLog,
                    reads, inVars, histVars >>

(***************************************************************************)
(* _message_loop.                                                          *)
(***************************************************************************)
\* data = await ws.recv(); buffer.extend(data): a whole transport frame
LoopRecv ==
    /\ pollPc = "loop_recv" /\ ~pollCancel
    /\ ws_connection \in openConns
    /\ reads < MaxReads
    /\ \E data \in RunnerFrames :
          /\ buffer' = Extend(buffer, data)
          /\ stream' = stream \o data
          /\ pos' = Len(stream) + Len(data)
    /\ reads' = reads + 1
    /\ pollPc' = "loop_drain"
    /\ UNCHANGED << unitVars, exitVars >>
    /\ UNCHANGED << flagVars, streaming, ws_connection, taskVars, stackVars,
                    connVars, gwVars, wire, client_version, demuxLog, inVars, histVars >>

\* the same read when the viewer's byte stream arrives in arbitrary fragments
LoopRecvFragment ==
    /\ pollPc = "loop_recv" /\ ~pollCancel
    /\ ws_connection \in openConns
    /\ \E n \in 1 .. (Len(stream) - pos) :
          /\ buffer' = Extend(buffer, SubSeq(stream, pos + 1, pos + n))
          /\ pos' = pos + n
    /\ reads' = reads + 1
    /\ pollPc' = "loop_drain"
    /\ UNCHANGED << unitVars, exitVars >>
    /\ UNCHANGED << flagVars, streaming, ws_connection, taskVars, stackVars,
                    connVars, gwVars, wire, client_version, stream, demuxLog, inVars, histVars >>

\* recv() raises ConnectionClosed: streaming = False, break, then the finally
LoopRecvClosed ==
    /\ pollPc = "loop_recv" /\ ~pollCancel
    /\ ws_connection \notin openConns
    /\ streaming' = FALSE
    /\ exc' = "none"
    /\ pollPc' = "closing"
    /\ UNCHANGED << unitVars, exitVars >>
    /\ UNCHANGED << flagVars, ws_connection, taskVars, commands, cmd, pollStatus, waited, attempt,
                    retry_delay, ackKind, ackTry, connVars, gwVars, sessVars,
                    inVars, histVars >>

\* one iteration of the inner loop (lines 352-417)
LoopDrain ==
    /\ pollPc = "loop_drain"
    /\ LET step == DemuxStep(buffer)
           payload == Take(buffer, step.total)
       IN
        IF step.act = "break"
        THEN \* back to `while self.streaming and self.is_running`
             /\ IF streaming /\ is_running
                THEN pollPc' = "loop_recv" /\ UNCHANGED exc
                ELSE pollPc' = "closing" /\ exc' = "none"
             /\ UNCHANGED << streaming, buffer, demuxLog, wire, client_version, inVars >>
        ELSE IF step.act = "skip"
        THEN /\ buffer' = pop(buffer)
             /\ demuxLog' = Append(demuxLog, [kind |-> "skip", bytes |-> payload])
             /\ UNCHANGED << streaming, pollPc, exc, wire, client_version, inVars >>
        ELSE /\ buffer' = Drop(buffer, step.total)
             /\ demuxLog' = Append(demuxLog, [kind |-> "msg", bytes |-> payload])
             /\ IF payload[1] = 3
                THEN \E captureOk \in BOOLEAN :
                       LET frame == handle_framebuffer_update_request(
                                        payload[2] = 1, U16(payload, 3),
                                        U16(payload, 5), U16(payload, 7),
                                        U16(payload, 9), captureOk)
                       IN  IF frame.ok /\ ws_connection \in openConns
                           THEN \* await self.ws_connection.send(frame_data)
                                /\ wire' = Append(wire, "send_update")
                                /\ UNCHANGED client_version
                                /\ frame_counter' = frame_counter + 1
                                /\ last_frame' = Screen
                                /\ UNCHANGED << streaming, pollPc, exc >>
                           ELSE \* `except Exception`: streaming = False, raise
                                /\ streaming' = FALSE
                                /\ exc' = IF frame.ok THEN "ConnectionClosed"
                                          ELSE frame.msg
                                /\ pollPc' = "closing"
                                /\ frame_counter' =
                                     IF frame.ok THEN frame_counter + 1
                                     ELSE frame_counter
                                /\ last_frame' =
                                     IF frame.ok THEN Screen ELSE last_frame
                                /\ UNCHANGED << wire, client_version >>
                       /\ UNCHANGED << pressed_keys, inputCalls, keyboard >>
                ELSE IF payload[1] \in {4, 5, 6}
                THEN LET r == handle_input_event(payload, pressed_keys, inputCalls,
                                                 keyboard)
                     IN  /\ pressed_keys' = r.pressed
                         /\ keyboard' = r.keyboard
                         /\ inputCalls' = r.calls
                         /\ UNCHANGED << streaming, pollPc, exc, wire, client_version,
                                         frameVars >>
                ELSE \* SetPixelFormat is parsed and dropped, SetEncodings dropped
                     UNCHANGED << streaming, pollPc, exc, wire, client_version, inVars >>
    /\ UNCHANGED << unitVars, exitVars >>
    /\ UNCHANGED << flagVars, ws_connection, taskVars, commands, cmd, pollStatus, waited, attempt,
                    retry_delay, ackKind, ackTry, connVars, gwVars, stream, pos,
                    reads, histVars >>

\* exceptions that leave _message_loop through its `except Exception`
LoopErrors == { "CaptureError", "struct.error", "ConnectionClosed" }

\* the finally of _message_loop: _stop_vnc_streaming closes the connection
\* and forgets it; then the loop's outcome takes effect
Closing ==
    /\ pollPc = "closing" /\ ~pollCancel
    /\ openConns' = openConns \ {ws_connection}
    /\ ws_connection' = 0
    /\ wire' = << >> /\ stream' = << >> /\ pos' = 0 /\ demuxLog' = << >>
    /\ inputCalls' = << >> /\ client_version' = Unread
    /\ IF exc \in LoopErrors
       THEN /\ StartFailed
            /\ exc' = "none" /\ buffer' = << >>
            /\ UNCHANGED << commands, cmd, pollStatus, waited, attempt, retry_delay >>
       ELSE IF exc = "cancelled"
       THEN TaskEnds /\ UNCHANGED streaming
       ELSE \* _start_vnc_streaming returns; 'VNC streaming started' is acked
            /\ pollPc' = "ack" /\ ackKind' = "result" /\ ackTry' = 1
            /\ exc' = "none" /\ buffer' = << >>
            /\ UNCHANGED << streaming, commands, cmd, pollStatus, waited, attempt, retry_delay >>
    /\ UNCHANGED << unitVars, exitVars >>
    /\ UNCHANGED << flagVars, taskVars, nextConn, gwVars, reads, frameVars,
                    pressed_keys, keyboard, histVars >>

(***************************************************************************)
(* gateway.ack_command and the rest of the poll loop.                      *)
(***************************************************************************)
\* _handle_command is left: its locals and those of the calls it made are
\* gone, and so is the log of the connection it worked on
HandlerReturns ==
    /\ cmd' = NoCommand
    /\ attempt' = 0 /\ retry_delay' = InitialRetryDelay
    /\ ackKind' = "result" /\ ackTry' = 1
    /\ IF streaming THEN UNCHANGED << wire, client_version >>
       ELSE wire' = << >> /\ client_version' = Unread

\* the ack request reaches the gateway
AckSend ==
    /\ pollPc = "ack" /\ ~pollCancel
    /\ acks' = acks \cup { [id |-> cmd.id,
                             kind |-> IF ackKind = "result" THEN "result"
                                      ELSE "error"] }
    /\ pollPc' = "ack_wait"
    /\ UNCHANGED << unitVars, exitVars >>
    /\ UNCHANGED << flagVars, streaming, ws_connection, taskVars, stackVars,
                    connVars, nextId, sequence, events, inflight, sessVars,
                    inVars, histVars >>

\* the response: 2xx, or an HTTP error, which ack_command re-raises: an ack in
\* the try block is followed by an error ack from `except Exception`, an error
\* ack that fails goes to the poll loop's `except Exception`
AckReturn ==
    /\ pollPc = "ack_wait" /\ ~pollCancel
    /\ \E status \in Statuses :
         IF IsSuccess(status)
         THEN \* _handle_command returns
              /\ pollPc' = "next_cmd" /\ HandlerReturns /\ UNCHANGED exc
         ELSE IF ackTry = 1
         THEN /\ pollPc' = "ack" /\ ackKind' = "ack_failed" /\ ackTry' = 2
              /\ UNCHANGED << exc, cmd, attempt, retry_delay, wire, client_version >>
         ELSE \* the error ack raised: _handle_command is left
              /\ pollPc' = "poll_failed" /\ exc' = HttpError(status)
              /\ HandlerReturns
    /\ UNCHANGED << unitVars, exitVars >>
    /\ UNCHANGED << flagVars, streaming, ws_connection, taskVars, commands,
                    pollStatus, waited, connVars, gwVars, buffer, stream, pos,
                    demuxLog, reads, inVars, histVars >>

\* asyncio.sleep(poll interval), then `while self.is_running`: the next
\* iteration starts with the locals of this one dead
PollSleep ==
    /\ pollPc = "sleep" /\ ~pollCancel
    /\ IF is_running
       THEN /\ pollPc' = "poll"
            /\ commands' = << >> /\ cmd' = NoCommand
            /\ attempt' = 0 /\ retry_delay' = InitialRetryDelay
            /\ exc' = "none" /\ ackKind' = "result" /\ ackTry' = 1
            /\ pollStatus' = 0 /\ waited' = 0
            /\ UNCHANGED buffer
       ELSE TaskEnds
    /\ UNCHANGED << unitVars, exitVars >>
    /\ UNCHANGED << flagVars, streaming, ws_connection, taskVars, connVars, gwVars,
                    wire, client_version, stream, pos, demuxLog, reads, inVars,
                    histVars >>

\* task.cancel(): CancelledError is raised at the await the task is suspended
\* in.  It is not an Exception: no `except Exception` catches it; inside
\* _message_loop the finally runs; inside _stop_vnc_streaming the close is
\* interrupted, done or not.
PollCancelled ==
    /\ pollCancel /\ pollPc \in AwaitPcs
    /\ pollCancel' = FALSE
    /\ IF pollPc = "loop_recv"
       THEN /\ pollPc' = "closing" /\ exc' = "cancelled" /\ streaming' = FALSE
            /\ UNCHANGED << openConns, commands, cmd, pollStatus, waited, attempt, retry_delay,
                            ackKind, ackTry, buffer >>
       ELSE IF pollPc = "closing"
       THEN /\ TaskEnds
            /\ \/ openConns' = openConns \ {ws_connection}
               \/ UNCHANGED openConns
            /\ UNCHANGED streaming
       ELSE TaskEnds /\ UNCHANGED << streaming, openConns >>
    /\ UNCHANGED << unitVars, exitVars >>
    /\ UNCHANGED << flagVars, ws_connection, mainPc, hbPc, hbCancel, nextConn,
                    gwVars, wire, client_version, stream, pos, demuxLog, reads, inVars, histVars >>

(***************************************************************************)
(* The supervisor.                                                         *)
(***************************************************************************)
Next ==
    \/ MainStart \/ MainCancelPoll \/ MainCancelHeartbeat \/ MainJoined
    \/ MainStop \/ Signal
    \/ Heartbeat \/ HeartbeatCancelled
    \/ PollCommands \/ PollFailed \/ RateLimitSleep \/ HandleCommand
    \/ Connect \/ Backoff \/ RemoteClose
    \/ HsVersion \/ HsSecurity \/ HsInit
    \/ LoopRecv \/ LoopRecvClosed \/ LoopDrain \/ Closing
    \/ AckSend \/ AckReturn \/ PollSleep \/ PollCancelled

Spec == Init /\ [][Next]_vars

(***************************************************************************)
(* The demultiplexer on its own: a session that has completed the          *)
(* handshake, a byte stream the viewer sends, delivered in fragments of    *)
(* any sizes.                                                              *)
(***************************************************************************)
HandshakeOrder ==
    << "send_version", "recv_version", "send_security_types", "recv_security",
       "send_security_result", "recv_client_init", "send_server_init" >>

InitDemux ==
    /\ is_running = TRUE /\ streaming = TRUE
    /\ ws_connection = 1 /\ shutdown_event = FALSE
    /\ mainPc = "wait" /\ pollPc = "loop_recv" /\ hbPc = "beat"
    /\ mainExc = "none" /\ exit_code = Running
    /\ pollCancel = FALSE /\ hbCancel = FALSE
    /\ commands = << >> /\ cmd = [id |-> 1, command |-> START]
    /\ attempt = 0 /\ retry_delay = InitialRetryDelay
    /\ exc = "none" /\ ackKind = "result" /\ ackTry = 1
    /\ pollStatus = 200 /\ waited = 0
    /\ openConns = {1} /\ nextConn = 1
    /\ nextId = 2 /\ acks = {} /\ sequence = 1
    /\ events = << 0 >> /\ inflight = << >>
    /\ wire = HandshakeOrder /\ buffer = << >>
    /\ stream \in DemuxStreams /\ pos = 0
    /\ demuxLog = << >> /\ reads = 0
    /\ frame_counter = 0 /\ last_frame = NoFrame
    /\ pressed_keys = {} /\ inputCalls = << >>
    /\ keyboard = << >> /\ NoCall /\ capturer_last_frame = NoFrame
    /\ client_version = ValidVersion
    /\ held = {} /\ opened = {1} /\ sessReleased = FALSE /\ polled = {1}

NextDemux ==
    \/ LoopRecvFragment \/ LoopDrain \/ RemoteClose \/ LoopRecvClosed \/ Closing

SpecDemux == InitDemux /\ [][NextDemux]_vars

(***************************************************************************)
(* The end of the handshake and the message loop: the viewer sends         *)
(* ClientInit and then its messages, and the transport delivers these      *)
(* bytes in frames of any sizes.                                           *)
(***************************************************************************)
\* ClientInit: the shared flag
ClientInitMsg == << 1 >>

InitBoundary ==
    /\ is_running = TRUE /\ streaming = TRUE
    /\ ws_connection = 1 /\ shutdown_event = FALSE
    /\ mainPc = "wait" /\ pollPc = "hs_init" /\ hbPc = "beat"
    /\ mainExc = "none" /\ exit_code = Running
    /\ pollCancel = FALSE /\ hbCancel = FALSE
    /\ commands = << >> /\ cmd = [id |-> 1, command |-> START]
    /\ attempt = 0 /\ retry_delay = InitialRetryDelay
    /\ exc = "none" /\ ackKind = "result" /\ ackTry = 1
    /\ pollStatus = 200 /\ waited = 0
    /\ openConns = {1} /\ nextConn = 1
    /\ nextId = 2 /\ acks = {} /\ sequence = 1
    /\ events = << 0 >> /\ inflight = << >>
    /\ wire = Take(HandshakeOrder, 5) /\ buffer = << >>
    /\ stream \in { ClientInitMsg \o d : d \in DemuxStreams } /\ pos = 0
    /\ demuxLog = << >> /\ reads = 0
    /\ frame_counter = 0 /\ last_frame = NoFrame
    /\ pressed_keys = {} /\ inputCalls = << >>
    /\ keyboard = << >> /\ NoCall /\ capturer_last_frame = NoFrame
    /\ client_version = ValidVersion
    /\ held = {} /\ opened = {1} /\ sessReleased = FALSE /\ polled = {1}

\* HsInit when the viewer's bytes arrive in arbitrary frames: recv() returns
\* one whole frame, parse_client_init looks at its first byte only, and
\* _message_loop starts with `buffer = bytearray()`
HsInitFrame ==
    /\ pollPc = "hs_init" /\ ~pollCancel
    /\ IF ws_connection \notin openConns
       THEN StartFailed /\ UNCHANGED << wire, buffer, pos, reads >>
       ELSE /\ \E n \in 1 .. (Len(stream) - pos) : pos' = pos + n
            /\ reads' = reads + 1
            /\ wire' = wire \o << "recv_client_init", "send_server_init" >>
            /\ buffer' = << >>
            /\ pollPc' = "loop_recv"
            /\ UNCHANGED << streaming, ackKind, ackTry >>
    /\ UNCHANGED << unitVars, exitVars >>
    /\ UNCHANGED << flagVars, ws_connection, taskVars, commands, cmd, pollStatus,
                    waited, attempt, retry_delay, exc, connVars, gwVars, stream,
                    demuxLog, client_version, inVars, histVars >>

NextBoundary ==
    \/ HsInitFrame \/ LoopRecvFragment \/ LoopDrain \/ RemoteClose
    \/ LoopRecvClosed \/ Closing

SpecBoundary == InitBoundary /\ [][NextBoundary]_vars

(***************************************************************************)
(* GatewayClient.send_event called by several tasks of one event loop: a   *)
(* call runs up to `await client.post(...)`, the gateway answers, and the  *)
(* call resumes after the await.                                           *)
(***************************************************************************)
\* timestamp, nonce and body are built from self.sequence, then the
\* coroutine is suspended in client.post
SendEventBegin ==
    /\ Len(inflight) < MaxCalls
    /\ inflight' = Append(inflight,
                          [sequence |-> sequence, pc |-> "posted", status |-> 0])
    /\ UNCHANGED << runnerVars, inVars, unitVars, nextId, acks, sequence, events >>

\* the gateway (or the transport, status 0) answers one posted request; an
\* event answered with a 2xx has been accepted with the sequence of its body
GatewayAnswers ==
    /\ \E i \in 1 .. Len(inflight), status \in Statuses :
         /\ inflight[i].pc = "posted"
         /\ inflight' = [inflight EXCEPT ![i].pc = "answered", ![i].status = status]
         /\ events' = IF IsSuccess(status)
                      THEN Append(events, inflight[i].sequence)
                      ELSE events
    /\ UNCHANGED << runnerVars, inVars, unitVars, nextId, acks, sequence >>

\* the call resumes: raise_for_status(), then self.sequence += 1
SendEventResume ==
    /\ \E i \in 1 .. Len(inflight) :
         /\ inflight[i].pc = "answered"
         /\ sequence' = send_event(sequence, inflight[i].status).sequence
         /\ inflight' = [inflight EXCEPT ![i].pc =
                            IF send_event(sequence, inflight[i].status).raised
                            THEN "raised" ELSE "returned"]
    /\ UNCHANGED << runnerVars, inVars, unitVars, nextId, acks, events >>

NextEvents == SendEventBegin \/ GatewayAnswers \/ SendEventResume

SpecEvents == Init /\ [][NextEvents]_vars

(***************************************************************************)
(* RunAuth.create_signature called twice.                                  *)
(***************************************************************************)
InitSign == Constructed /\ op = "none" /\ arg \in SignPairs /\ res = << >>

CreateSignatures ==
    /\ op = "none"
    /\ op' = "create_signature"
    /\ res' = << create_signature(arg[1]), create_signature(arg[2]) >>
    /\ UNCHANGED << runnerVars, gwVars, inVars, arg, capturer_last_frame >>

NextSign == CreateSignatures

SpecSign == InitSign /\ [][NextSign]_vars

(***************************************************************************)
(* One InputHandler: key events and release_all in any order.              *)
(***************************************************************************)
KeyEvent ==
    /\ Len(inputCalls) < MaxKeyEvents
    /\ \E event \in KeyEvents :
         /\ inputCalls' = Append(inputCalls, event)
         /\ pressed_keys' = handle_key_event(event, pressed_keys, keyboard).pressed
         /\ keyboard' = handle_key_event(event, pressed_keys, keyboard).keyboard
    /\ op' = "handle_key_event"
    /\ UNCHANGED << runnerVars, gwVars, frameVars, arg, res, capturer_last_frame >>

ReleaseAll ==
    /\ pressed_keys' = release_all(pressed_keys, keyboard).pressed
    /\ keyboard' = release_all(pressed_keys, keyboard).keyboard
    /\ op' = "release_all"
    /\ UNCHANGED << runnerVars, gwVars, frameVars, inputCalls, arg, res,
                    capturer_last_frame >>

NextKeys == KeyEvent \/ ReleaseAll

SpecKeys == Init /\ [][NextKeys]_vars

(***************************************************************************)
(* The RFBEncoder's parsers and encoders called on their own.              *)
(***************************************************************************)
InitCodec == Constructed /\ op = "none" /\ arg \in CodecInputs /\ res = << >>

ParseKeyEvent ==
    /\ op = "none" /\ arg.kind = "bytes"
    /\ op' = "parse_key_event"
    /\ res' = parse_key_event(arg.data)
    /\ UNCHANGED << runnerVars, gwVars, inVars, arg, capturer_last_frame >>

ParsePointerEvent ==
    /\ op = "none" /\ arg.kind = "bytes"
    /\ op' = "parse_pointer_event"
    /\ res' = parse_pointer_event(arg.data)
    /\ UNCHANGED << runnerVars, gwVars, inVars, arg, capturer_last_frame >>

\* _message_loop hands the 20 bytes it took from the buffer to the parser
ParseSetPixelFormat ==
    /\ op = "none" /\ arg.kind = "bytes"
    /\ op' = "parse_set_pixel_format"
    /\ res' = parse_set_pixel_format(arg.data)
    /\ UNCHANGED << runnerVars, gwVars, inVars, arg, capturer_last_frame >>

\* one rectangle, Raw encoding
EncodeFrameUpdate ==
    /\ op = "none" /\ arg.kind = "rects" /\ Len(arg.data) = 1
    /\ op' = "encode_frame_update"
    /\ res' = encode_frame_update("frame_data", arg.data[1].x, arg.data[1].y,
                                  arg.data[1].width, arg.data[1].height)
    /\ UNCHANGED << runnerVars, gwVars, inVars, arg, capturer_last_frame >>

EncodeMultipleRectangles ==
    /\ op = "none" /\ arg.kind = "rects"
    /\ op' = "encode_multiple_rectangles"
    /\ res' = encode_multiple_rectangles(arg.data)
    /\ UNCHANGED << runnerVars, gwVars, inVars, arg, capturer_last_frame >>

NextCodec ==
    \/ ParseKeyEvent \/ ParsePointerEvent \/ ParseSetPixelFormat
    \/ EncodeFrameUpdate \/ EncodeMultipleRectangles

SpecCodec == InitCodec /\ [][NextCodec]_vars

(***************************************************************************)
(* ScreenCapturerDelta called on its own.                                  *)
(***************************************************************************)
InitDelta ==
    Constructed /\ op = "none" /\ arg \in FramePairs \cup DirtyLists /\ res = << >>

\* the bytes of the changed pixels differ between the two captures
DetectDirtyRegions ==
    /\ op = "none" /\ arg.kind = "frames"
    /\ op' = "detect_dirty_regions"
    /\ res' = detect_dirty_regions(
                 arg.retained,
                 UNION { PixelBytes(p[1], p[2]) : p \in arg.changed })
    /\ UNCHANGED << runnerVars, gwVars, inVars, arg, capturer_last_frame >>

MergeRegions ==
    /\ op = "none" /\ arg.kind = "blocks"
    /\ op' = "_merge_regions"
    /\ res' = _merge_regions(arg.data)
    /\ UNCHANGED << runnerVars, gwVars, inVars, arg, capturer_last_frame >>

NextDelta == DetectDirtyRegions \/ MergeRegions

SpecDelta == InitDelta /\ [][NextDelta]_vars

(***************************************************************************)
(* A ScreenCapturerDelta and a VNCServer called repeatedly, with captures  *)
(* that succeed or fail.                                                   *)
(***************************************************************************)
DetectDirtyRegionsCall ==
    /\ \E captureOk \in BOOLEAN, current \in Frames :
         LET r == detect_dirty_regions_call(capturer_last_frame, captureOk, current)
         IN  /\ op' = "detect_dirty_regions"
             /\ arg' = [captureOk |-> captureOk, frame |-> current]
             /\ res' = [ok |-> r.ok, msg |-> r.msg, regions |-> r.regions]
             /\ capturer_last_frame' = r.last_frame
    /\ UNCHANGED << runnerVars, gwVars, inVars >>

\* capture_frame: last_frame and frame_counter are assigned after the frame
\* was captured and encoded
CaptureFrame ==
    /\ \E captureOk \in BOOLEAN :
         LET frame == capture_frame(captureOk)
         IN  /\ op' = "capture_frame"
             /\ arg' = [captureOk |-> captureOk, frame |-> Screen]
             /\ res' = frame
             /\ frame_counter' = IF frame.ok THEN frame_counter + 1 ELSE frame_counter
             /\ last_frame' = IF frame.ok THEN Screen ELSE last_frame
    /\ UNCHANGED << runnerVars, gwVars, pressed_keys, inputCalls, keyboard,
                    capturer_last_frame >>

NextCapture == DetectDirtyRegionsCall \/ CaptureFrame

SpecCapture == Init /\ [][NextCapture]_vars

(***************************************************************************)
(* Properties.                                                             *)
(***************************************************************************)
\* the messages among the entries of a demultiplexer log
Msgs(log) == SelectSeq(log, LAMBDA e : e.kind = "msg")

MsgBytes(log) == [i \in 1 .. Len(Msgs(log)) |-> Msgs(log)[i].bytes]

OfType(log, t) == SelectSeq(MsgBytes(log), LAMBDA m : m[1] = t)

Count(q, x) == Cardinality({ i \in 1 .. Len(q) : q[i] = x })

\* C1: while a streaming session is active the poll loop runs as a task of its
\* own: the poll task is never suspended inside the session (connect,
\* handshake, message loop, teardown), so it keeps polling during the stream.
PollLoopIndependent == streaming => pollPc \notin SessionPcs

\* C2: every polled command with an id and a name is acknowledged: once the
\* poll task has ended, an ack request was sent for each of them.
AllCommandsAcked ==
    pollPc = "done" => \A id \in polled : \E a \in acks : a.id = id

\* C3: a command that was in the runner's hands while a session was active
\* (such as a second start command of the same batch) opens no connection,
\* neither during that session nor after it.
NoDeferredStart == held \cap opened = {}

\* C4: when the next connection attempt is made, and when the handling of the
\* start command is over (its ack is due), no connection is still open.
ConnectionClosedAfterSession ==
    pollPc \in {"connect", "ack"} => openConns = {}

\* C5: when a session has ended (the runner is out of the session and not
\* streaming), release_all has run since that session began and no key is held.
KeysReleasedAtTeardown ==
    (~streaming /\ pollPc \notin SessionPcs) => (sessReleased /\ pressed_keys = {})

\* C6: every FramebufferUpdateRequest the loop has consumed was answered by one
\* FramebufferUpdate written to the transport, and the loop did not end in an
\* error.
EveryUpdateRequestAnswered ==
    /\ Len(OfType(demuxLog, 3)) = Count(wire, "send_update")
    /\ (OfType(demuxLog, 3) # << >> => exc \notin LoopErrors)

\* the InputHandler calls the claim expects for the consumed messages: a
\* KeyEvent's down flag is its byte 1 and its keysym bytes 4-7, a
\* PointerEvent's mask is its byte 1, x bytes 2-3 and y bytes 4-5
ExpectedCall(m) ==
    IF m[1] = 4
    THEN [ok |-> TRUE, type |-> "key", down |-> (m[2] # 0), key |-> U32(m, 5)]
    ELSE [ok |-> TRUE, type |-> "pointer", mask |-> m[2],
          x |-> U16(m, 3), y |-> U16(m, 5)]

ExpectedCalls(log) ==
    LET inputs == SelectSeq(MsgBytes(log), LAMBDA m : m[1] \in {4, 5})
    IN  [i \in 1 .. Len(inputs) |-> ExpectedCall(inputs[i])]

\* C7: every KeyEvent and PointerEvent the loop has consumed led to exactly one
\* InputHandler call with the message's own fields, in order.
EveryInputEventDispatched == inputCalls = ExpectedCalls(demuxLog)

\* the messages dispatched when the bytes b arrive in one read: the loop is
\* iterated on b until it breaks or a handler raises
RECURSIVE SingleRead(_)
SingleRead(b) ==
    LET step == DemuxStep(b) IN
    IF step.act = "break" THEN << >>
    ELSE IF step.act = "skip" THEN SingleRead(Drop(b, 1))
    ELSE IF b[1] = 3 /\ \A captureOk \in BOOLEAN :
                ~handle_framebuffer_update_request(b[2] = 1, U16(b, 3), U16(b, 5),
                                                   U16(b, 7), U16(b, 9), captureOk).ok
    THEN << Take(b, step.total) >>
    ELSE << Take(b, step.total) >> \o SingleRead(Drop(b, step.total))

\* C8: whatever the fragmentation, each time the loop waits for a read it has
\* dispatched what one read of the bytes delivered so far dispatches, and when
\* the whole stream was delivered or the loop ended in an error, what one read
\* of the whole stream dispatches.
FragmentationIndependent ==
    /\ pollPc = "loop_recv" => MsgBytes(demuxLog) = SingleRead(Take(stream, pos))
    /\ (pollPc = "closing" /\ exc \in LoopErrors) =>
          MsgBytes(demuxLog) = SingleRead(stream)

\* C8 witness: a two-message stream was delivered in three or more reads
\* and both messages were dispatched
FragmentedStreamDispatched ==
    /\ pollPc = "loop_recv" /\ pos = Len(stream) /\ reads >= 3
    /\ Len(Msgs(demuxLog)) = 2 /\ buffer = << >>

KnownTypes == {0, 2, 3, 4, 5, 6}

\* the length of the message at the head of b by its type, as the claim
\* gives it; -1 while the header that holds the length is not complete
ClaimedLength(b) ==
    IF b[1] = 0 THEN 20
    ELSE IF b[1] = 2 THEN (IF Len(b) < 4 THEN -1 ELSE 4 + 4 * U16(b, 3))
    ELSE IF b[1] = 3 THEN 10
    ELSE IF b[1] = 4 THEN 8
    ELSE IF b[1] = 5 THEN 6
    ELSE IF Len(b) < 8 THEN -1 ELSE 8 + U32(b, 5)

\* C9: when the loop waits for a read the buffer is empty or starts with a
\* known type whose full length is not there; every dispatched message has its
\* type's length; and the consumed bytes followed by the buffer are the bytes
\* delivered (nothing lost, nothing removed but whole messages and skipped bytes).
WaitsOnlyOnIncomplete ==
    /\ pollPc = "loop_recv" =>
          \/ buffer = << >>
          \/ /\ buffer[1] \in KnownTypes
             /\ (ClaimedLength(buffer) = -1 \/ Len(buffer) < ClaimedLength(buffer))
    /\ \A i \in 1 .. Len(demuxLog) :
          demuxLog[i].kind = "msg" =>
             /\ demuxLog[i].bytes[1] \in KnownTypes
             /\ Len(demuxLog[i].bytes) = ClaimedLength(demuxLog[i].bytes)
    /\ pollPc \in {"loop_recv", "loop_drain"} =>
          Flatten([i \in 1 .. Len(demuxLog) |-> demuxLog[i].bytes]) \o buffer
             = Take(stream, pos)

\* C9 witness: the loop waits with an incomplete message in the buffer after
\* having dispatched a message
WaitingOnPartialMessage ==
    /\ pollPc = "loop_recv" /\ buffer # << >> /\ Msgs(demuxLog) # << >>

\* C10: the messages of one connection follow the handshake order, nothing
\* but framebuffer updates follows ServerInit, and no client byte reaches
\* the demultiplexer before ServerInit was sent.
HandshakeOrdered ==
    /\ Take(wire, 7) = Take(HandshakeOrder, Len(wire))
    /\ \A i \in 8 .. Len(wire) : wire[i] = "send_update"
    /\ (demuxLog # << >> \/ buffer # << >>) => Len(wire) >= 7

\* C10 witness: the handshake is complete and a client message was dispatched
HandshakeDoneAndDispatching ==
    /\ Len(wire) >= 7 /\ Msgs(demuxLog) # << >> /\ pollPc = "loop_drain"

\* the client's version string was read and is absent (empty) or does not
\* begin with the bytes 'R', 'F', 'B'
VersionRejectable ==
    /\ client_version # Unread
    /\ \/ Len(client_version) < 3
       \/ client_version[1] # 82 \/ client_version[2] # 70 \/ client_version[3] # 66

\* C11: when the client's version string is empty or does not begin with RFB,
\* the read is followed by a raised error (the retry handler or the error ack
\* comes next), the session is over (not streaming, outside the handshake and
\* the message loop), and nothing was sent on the connection after the server's
\* version string.
BadVersionRejected ==
    /\ [](VersionRejectable =>
            /\ wire = << "send_version", "recv_version" >>
            /\ ~streaming
            /\ pollPc \notin SessionPcs)
    /\ [][(pollPc = "hs_version" /\ VersionRejectable') =>
            /\ pollPc' \in {"backoff", "ack"}
            /\ (pollPc' = "ack" => ackKind' = "start_failed")]_vars

\* C11 witness: a client answered 'HTTP' and the runner is in the retry handler
HttpVersionRejected ==
    /\ client_version = << 72, 84, 84, 80 >> /\ pollPc = "backoff"

\* C12: after the handshake of a connection opened for the start command in
\* hand was rejected for its version string, that command makes no further
\* attempt: the runner neither waits for a retry nor connects again.
NoRetryAfterRejection ==
    (VersionRejectable /\ cmd.id \in opened) => pollPc \notin {"backoff", "connect"}

\* C13: pollCommands never raises to its caller: the poll loop's exception
\* handler is never entered with an exception that came out of poll_commands.
PollNeverRaises ==
    ~(pollPc = "poll_failed" /\ exc \in {"JSONDecodeError", "AttributeError", "KeyError"})

\* C14: a command record without an id is dropped: no ack request ever names
\* a missing id, a record without the id key never comes into the runner's
\* hands, and the step that takes a record with a null or empty id from the
\* batch sends no ack, sets no shutdown event, and starts or touches no session.
NoIdCommandDropped ==
    /\ [](\A a \in acks : a.id > 0)
    /\ [](\A i \in 1 .. Len(commands) : commands[i].id >= 0)
    /\ [][(/\ pollPc = "next_cmd" /\ commands # << >>
           /\ Head(commands).id = 0 /\ commands' = Tail(commands)) =>
            /\ pollPc' = "next_cmd"
            /\ UNCHANGED << acks, shutdown_event, streaming, ws_connection,
                            openConns, nextConn >>]_vars

\* C14 witness: a __STOP__ record with a null id is the next of the batch
NoIdStopInHand ==
    /\ pollPc = "next_cmd" /\ commands # << >>
    /\ Head(commands) = [id |-> 0, command |-> STOP]

\* C15: a capture failure does not end the session: it never becomes the
\* exception that leaves the message loop.
CaptureFailureIsolated ==
    exc = "CaptureError" => (streaming /\ pollPc \in {"loop_recv", "loop_drain"})

\* C16: a start command makes at most 5 attempts (attempt index 0..4); the
\* wait after the k-th failed attempt, k = attempt + 1 <= 4, is
\* min(2 * 2^(k-1), 30); after the 5th failed attempt there is no wait: the
\* error goes to the command handler, which acks it.
BackoffSchedule ==
    /\ [](attempt \in 0 .. 4)
    /\ [](pollPc = "backoff" =>
            /\ attempt <= 3
            /\ retry_delay = Min(2 * 2 ^ attempt, 30)
            /\ retry_delay \in {2, 4, 8, 16})
    /\ [](retry_delay <= 30)
    /\ [][(pollPc \in {"connect"} \cup SessionPcs /\ attempt = 4
           /\ pollPc' \notin {"connect"} \cup SessionPcs /\ pollPc' # "done") =>
            pollPc' = "ack"]_vars
    /\ [][attempt' # attempt =>
            \/ attempt' = attempt + 1 /\ pollPc = "backoff" /\ pollPc' = "connect"
            \/ attempt' = 0]_vars

\* C16 witness: the fourth wait (16 seconds) is about to begin
FourthBackoff == pollPc = "backoff" /\ attempt = 3 /\ retry_delay = 16

\* C17: once the error of a start command that used up its attempts has been
\* sent to the gateway, the poll task does not go on with the batch or the
\* loop (unless shutdown is already under way).
ExhaustionIsFatal ==
    [][(ackKind = "start_failed" /\ pollPc = "ack_wait" /\ ~shutdown_event) =>
         pollPc' \notin {"next_cmd", "poll_failed"}]_vars

\* C18: when the supervisor's stop has completed, the poll and heartbeat
\* tasks have ended, nothing is streaming and no tunnel connection is open.
ShutdownClosesEverything ==
    mainPc = "exited" =>
        /\ pollPc \in {"none", "done"} /\ hbPc \in {"none", "done"}
        /\ ~streaming /\ ~is_running
        /\ openConns = {}

\* C19: an iteration of the poll loop whose poll was answered 429 has slept
\* the rate-limit backoff by the time its regular interval sleep ends and the
\* next poll is issued.
RateLimitedPollBacksOff ==
    [][(pollPc = "sleep" /\ pollPc' = "poll" /\ pollStatus = 429) =>
         waited >= RateLimitBackoff]_vars

\* C20: the sequence counter is 0 before the first call, changes only by a
\* sendEvent call that succeeded, and then by exactly 1; a failed sendEvent
\* and every other operation leave it unchanged.
SequenceCountsConfirmedSends ==
    /\ [](mainPc = "start" => sequence = 0)
    /\ [][sequence' # sequence =>
            (sequence' = sequence + 1 /\ mainPc = "start" /\ mainPc' = "wait")]_vars
    /\ [][(mainPc = "start" /\ mainPc' = "wait") => sequence' = sequence + 1]_vars

\* C20 witness: the marker was sent, commands were polled and acked since
SequenceAfterOtherCalls == sequence = 1 /\ polled # {} /\ acks # {}

\* C21: the events the gateway accepted carry the sequence numbers 0, 1, 2, ...
\* in the order of their calls, whatever the interleaving of the calls.
EventSequencesDistinct ==
    events = [i \in 1 .. Len(events) |-> i - 1]

\* C22: two create_signature calls with identical arguments return the same
\* signature; two calls that differ in exactly one of method, path, body,
\* timestamp, nonce, runId and capability token sign different messages and
\* return different signatures.
SigningFieldSensitive ==
    op = "create_signature" =>
        LET n == Cardinality({ f \in SignFields : arg[1][f] # arg[2][f] })
        IN  /\ n = 0 => res[1] = res[2]
            /\ n = 1 => (res[1].message # res[2].message /\ res[1] # res[2])

\* a path with an embedded newline against a path without one
NewlineInPathSigned ==
    /\ op = "create_signature"
    /\ arg[1].path = << >> /\ arg[2].path = << 97, Newline, 97 >>
    /\ arg[1].nonce = << >> /\ arg[2].nonce = << >>
    /\ res[1] # res[2]

\* press, release, press, ...
Alternating(calls) ==
    \A i \in 1 .. Len(calls) : calls[i] = IF i % 2 = 1 THEN "press" ELSE "release"

\* C23: for every key code the issued press and release calls alternate,
\* starting with a press; the pressed set is the set of key codes whose last
\* issued call was a press; a down-event for a key code in the pressed set and
\* an up-event for a key code outside it issue nothing.
KeyActionsAlternate ==
    /\ [](\A k \in DOMAIN keyboard : Alternating(keyboard[k]))
    /\ [](pressed_keys =
            { k \in DOMAIN keyboard :
                keyboard[k] # << >> /\ keyboard[k][Len(keyboard[k])] = "press" })
    /\ [][inputCalls' # inputCalls =>
            LET event == inputCalls'[Len(inputCalls')]
            IN  (event.down <=> event.key \in pressed_keys) => keyboard' = keyboard]_vars

\* two down-events for 'A' in a row, then the up-event: one press, one release
SecondDownIssuedNothing ==
    /\ Len(inputCalls) = 3
    /\ \A i \in 1 .. 3 : inputCalls[i].key = 65 /\ (inputCalls[i].down <=> i < 3)
    /\ Issued(keyboard, 65) = << "press", "release" >>

\* C24: release_all issues one release for every member of the pressed set,
\* none for any other key code, and leaves the pressed set empty.
ReleaseAllReleasesEach ==
    [][op' = "release_all" =>
        /\ pressed_keys' = {}
        /\ \A k \in KeyCodes \cup DOMAIN keyboard :
              Issued(keyboard', k) =
                IF k \in pressed_keys THEN Append(Issued(keyboard, k), "release")
                ELSE Issued(keyboard, k)]_vars

\* release_all after down-events for the two shift key codes issued two
\* releases
BothShiftsReleased ==
    /\ op = "release_all" /\ pressed_keys = {}
    /\ Len(inputCalls) = 2 /\ inputCalls[1].down /\ inputCalls[2].down
    /\ Issued(keyboard, 65505) = << "press", "release" >>
    /\ Issued(keyboard, 65506) = << "press", "release" >>

\* C25: encoding a rectangle with 16-bit fields and Raw encoding does not
\* fail: it returns a FramebufferUpdate message (whose rectangle header then
\* decodes to the rectangle and whose payload follows it).
FrameUpdateEncoded ==
    (op \in {"encode_frame_update", "encode_multiple_rectangles"}
        /\ Len(arg.data) = 1)
    => (res.ok /\ res.msg = "FramebufferUpdate")

\* C26: parsing an 8-byte KeyEvent message (type, down-flag, two padding
\* bytes, keysym) returns down = (down-flag # 0) and key = the keysym; fewer
\* than 8 bytes parse to incomplete.
KeyEventParsed ==
    op = "parse_key_event" =>
        /\ Len(arg.data) < 8 => ~res.ok
        /\ Len(arg.data) = 8 =>
              /\ res.ok
              /\ res.down = (arg.data[2] # 0)
              /\ res.key = U32(arg.data, 5)

\* C27: parsing a PointerEvent given as button mask, x, y (five bytes)
\* returns a result with that x and y and with the five buttons equal to
\* bits 0 to 4 of the mask.
PointerEventParsed ==
    (op = "parse_pointer_event" /\ Len(arg.data) = 5) =>
        /\ res.ok
        /\ res.x = U16(arg.data, 2) /\ res.y = U16(arg.data, 4)
        /\ buttons(res.mask) =
             [left |-> arg.data[1] % 2 = 1,
              middle |-> (arg.data[1] \div 2) % 2 = 1,
              right |-> (arg.data[1] \div 4) % 2 = 1,
              scroll_up |-> (arg.data[1] \div 8) % 2 = 1,
              scroll_down |-> (arg.data[1] \div 16) % 2 = 1]

\* C28: for a 20-byte SetPixelFormat message the parsed fields are those of
\* the pixel-format block at bytes 4 to 19 of the message.
PixelFormatParsed ==
    (op = "parse_set_pixel_format" /\ Len(arg.data) = 20 /\ arg.data[1] = 0) =>
        /\ res.ok
        /\ res.bpp = arg.data[5] /\ res.color_depth = arg.data[6]
        /\ res.big_endian = (arg.data[7] # 0)
        /\ res.true_color = (arg.data[8] # 0)
        /\ res.red_max = U16(arg.data, 9) /\ res.green_max = U16(arg.data, 11)
        /\ res.blue_max = U16(arg.data, 13)
        /\ res.red_shift = arg.data[15] /\ res.green_shift = arg.data[16]
        /\ res.blue_shift = arg.data[17]

\* region r contains block b
Contains(r, b) ==
    /\ r[1] <= b[1] /\ b[1] + b[3] <= r[1] + r[3]
    /\ r[2] <= b[2] /\ b[2] + b[4] <= r[2] + r[4]

\* C29: with a retained capture, a new capture that differs only inside one
\* block gives exactly one region, which contains that block; an identical
\* capture gives the empty list.
OneBlockOneRegion ==
    (op = "detect_dirty_regions" /\ arg.retained) =>
        IF arg.changed = {} THEN res = << >>
        ELSE Len(res) = 1 /\ Contains(res[1], arg.block)

\* C30: merging the output of a merge returns it unchanged.
MergeIdempotent ==
    op = "_merge_regions" => _merge_regions(res) = res

\* C31: the merge runs to a fixpoint: no two regions of the returned list can
\* be merged (bounding boxes overlapping or within block_size of each other
\* in both axes), and every input block lies inside some returned region.
MergeReachesFixpoint ==
    op = "_merge_regions" =>
        /\ \A i, j \in DOMAIN res : i # j => ~_can_merge(res[i], res[j])
        /\ \A k \in DOMAIN arg.data :
              \E i \in DOMAIN res : Contains(res[i], arg.data[k])

\* region r lies inside the screen and is not empty
InsideScreen(r) ==
    /\ 0 <= r[1] /\ 0 <= r[2] /\ r[3] > 0 /\ r[4] > 0
    /\ r[1] + r[3] <= ScreenWidth /\ r[2] + r[4] <= ScreenHeight

\* C32: every region detect_dirty_regions returns lies inside the screen:
\* the full-screen region of the first call, the dirty blocks before they are
\* merged, and the regions after the merge.
RegionsInsideScreen ==
    /\ op = "detect_dirty_regions" =>
          /\ \A i \in DOMAIN res : InsideScreen(res[i])
          /\ LET blocks == _find_dirty_blocks(
                              UNION { PixelBytes(p[1], p[2]) : p \in arg.changed })
             IN  \A i \in DOMAIN blocks : InsideScreen(blocks[i])
    /\ op = "_merge_regions" => \A i \in DOMAIN res : InsideScreen(res[i])

\* a change was found in a block of the last column, which is narrower than
\* block_size, and the merged region ends at the right edge of the screen
ClippedBlockReported ==
    /\ op = "detect_dirty_regions" /\ arg.retained
    /\ LET blocks == _find_dirty_blocks(
                        UNION { PixelBytes(p[1], p[2]) : p \in arg.changed })
       IN  \E i \in DOMAIN blocks : blocks[i][3] < block_size
    /\ \E i \in DOMAIN res : res[i][1] + res[i][3] = ScreenWidth

\* C33: a call of detect_dirty_regions whose capture fails surfaces the
\* error and leaves the retained frame as it was, and a call whose capture
\* succeeds retains that capture, so the retained frame is always the last
\* successful capture; a capture_frame whose capture fails surfaces the error
\* and leaves last_frame and frame_counter as they were.
FailedCaptureKeepsFrames ==
    [][ /\ (op' = "detect_dirty_regions" /\ ~arg'.captureOk) =>
             /\ ~res'.ok /\ res'.msg = "CaptureError"
             /\ capturer_last_frame' = capturer_last_frame
        /\ (op' = "detect_dirty_regions" /\ arg'.captureOk) =>
             /\ res'.ok /\ capturer_last_frame' = arg'.frame
             /\ res'.regions = detect_dirty_regions(
                                   capturer_last_frame.captured,
                                   Diff(capturer_last_frame, arg'.frame))
        /\ (op' = "capture_frame" /\ ~arg'.captureOk) =>
             /\ ~res'.ok /\ res'.msg = "CaptureError"
             /\ last_frame' = last_frame /\ frame_counter' = frame_counter ]_vars

\* a capture failed after an earlier one had succeeded, and the frame of the
\* earlier one is still retained
FailedAfterSuccessfulCapture ==
    /\ op = "detect_dirty_regions" /\ ~arg.captureOk /\ ~res.ok
    /\ capturer_last_frame.captured /\ capturer_last_frame.lit # {}

\* C34: when registering the agent or sending the started marker fails,
\* start() leaves with the exception: the poll and heartbeat tasks are never
\* created, only stop() remains to be run, and the process ends with exit
\* code 1 after stop() has run; when start() returns after the shutdown
\* event (signal or __STOP__) the process ends with exit code 0.
StartupFailureIsFatal ==
    /\ mainExc # "none" =>
          /\ pollPc = "none" /\ hbPc = "none"
          /\ mainPc \in {"stop", "stop_again", "exited"}
    /\ mainPc # "exited" => exit_code = Running
    /\ mainPc = "exited" =>
          /\ ~is_running /\ ~streaming /\ pressed_keys = {}
          /\ IF mainExc # "none" THEN exit_code = 1
             ELSE shutdown_event /\ exit_code = 0

\* the started marker was rejected after a successful registration and the
\* process has ended with exit code 1
MarkerFailureExited ==
    /\ mainPc = "exited" /\ exit_code = 1
    /\ mainExc = "HTTPStatusError 500" /\ sequence = 0 /\ pollPc = "none"

\* C35: a step of the message loop on a buffer whose first byte is not a
\* known client message type removes exactly that byte, hands nothing to a
\* handler (no input call, nothing sent, no frame captured), leaves the
\* session streaming and stays in the parsing loop, so that the next step
\* parses from the next byte.
UnknownByteSkipped ==
    [][ ( /\ pollPc = "loop_drain" /\ buffer # << >>
          /\ buffer[1] \notin KnownTypes
          /\ demuxLog' # demuxLog )
        => /\ buffer' = Tail(buffer)
           /\ demuxLog' = Append(demuxLog, [kind |-> "skip", bytes |-> << buffer[1] >>])
           /\ pollPc' = "loop_drain" /\ streaming' = streaming
           /\ UNCHANGED << wire, inVars, ws_connection, openConns >> ]_vars

\* an unknown byte was dropped and the key event that followed it in the
\* same read was then dispatched
ResynchronisedAfterUnknownByte ==
    /\ Len(demuxLog) = 2 /\ reads = 1
    /\ demuxLog[1] = [kind |-> "skip", bytes |-> UnknownByte]
    /\ demuxLog[2] = [kind |-> "msg", bytes |-> KeyDownMsg]

\* C36: neither loop ends because a poll, a heartbeat, a command handler or
\* an ack failed: a task is done only after the shutdown event was set; the
\* poll loop's exception handler goes on to the loop's sleep (through the
\* rate-limit sleep for a 429), and the sleep is followed by the next poll
\* unless the task is cancelled or the runner was stopped.
LoopsSurviveFailures ==
    /\ [](pollPc = "done" => shutdown_event)
    /\ [](hbPc = "done" => shutdown_event)
    /\ [][ (pollPc = "poll_failed" /\ pollPc' # pollPc)
              => pollPc' \in {"sleep", "rate_limited"} ]_vars
    /\ [][ (pollPc = "rate_limited" /\ pollPc' # pollPc)
              => (pollPc' = "sleep" \/ (pollPc' = "done" /\ shutdown_event)) ]_vars
    /\ [][ (pollPc = "sleep" /\ pollPc' # pollPc)
              => (pollPc' = "poll" \/ (pollPc' = "done" /\ shutdown_event)) ]_vars
    /\ [][ (hbPc = "beat" /\ hbPc' # hbPc) => (hbPc' = "done" /\ shutdown_event) ]_vars

\* an error ack was answered with 429, the poll loop made its rate-limit
\* sleep and is in its regular sleep, with the runner not shut down and the
\* heartbeat loop running
LoopSleepsAfterFailedAck ==
    /\ pollPc = "sleep" /\ waited = RateLimitBackoff
    /\ is_running /\ ~shutdown_event /\ hbPc = "beat"
    /\ \E a \in acks : a.kind = "error"

\* C37: the commands of a batch are handled independently: when the poll
\* loop has reached its sleep and no shutdown was requested, an ack request
\* was made for every command with an id and a name that the polls returned,
\* whatever happened to the other commands of its batch.
BatchCommandsIndependent ==
    (pollPc = "sleep" /\ ~shutdown_event /\ ~pollCancel) =>
        \A id \in polled : \E a \in acks : a.id = id

\* C38: the 'VNC streaming started' ack of a start command that opened a
\* session is sent while that session is active: at the step that sends the
\* ack request the runner is streaming on an open connection.
StartAckedDuringSession ==
    [][ ( /\ acks' # acks /\ cmd.command = START
          /\ ackKind = "result" /\ cmd.id \in opened )
        => (streaming /\ ws_connection \in openConns) ]_vars

\* C39: no client byte is lost between handshake and streaming: each time
\* the message loop waits for a read, it has dispatched what one read of the
\* bytes delivered after ClientInit dispatches, however the viewer's bytes
\* were grouped into transport frames.
BoundaryBytesKept ==
    (pollPc = "loop_recv" /\ Len(wire) >= 7) =>
        MsgBytes(demuxLog) = SingleRead(SubSeq(stream, Len(ClientInitMsg) + 1, pos))

\* C40: a platform key is held exactly when some key code that maps to it
\* is in the pressed set.  This is kept by every step if and only if a
\* press is issued for a platform key only when no key code of that key was
\* in the pressed set before the step (no second press), and a release only
\* when no key code of that key is in the pressed set after the step (no
\* release while another key code of the key is still pressed).
PlatformKeyFollowsPressedSet ==
    [][ \A k \in DOMAIN keyboard' :
          Len(keyboard'[k]) > Len(Issued(keyboard, k)) =>
             IF keyboard'[k][Len(keyboard'[k])] = "press"
             THEN \A j \in pressed_keys : _vnckey_to_pynput(j) # _vnckey_to_pynput(k)
             ELSE \A j \in pressed_keys' : _vnckey_to_pynput(j) # _vnckey_to_pynput(k)
      ]_vars

====
